---- MODULE Spec2Model ----
(***************************************************************************)
(* CodeSage backend: the repository-analysis job (backend/main.py) and the *)
(* dispatch to the language extractors (backend/parser.py).                *)
(*                                                                         *)
(* Spec     the job controller: projects are created, deleted and          *)
(*          analysed; several background runs of run_full_analysis may     *)
(*          overlap.  The walk and the three documentation stages of a run *)
(*          touch no shared record, so a run takes them in one step.       *)
(* SpecRun  one execution of run_full_analysis, one step per external call *)
(*          (record-store read or write, clone, text-generation call,      *)
(*          removal of the temporary directory).                           *)
(***************************************************************************)
EXTENDS Integers, Sequences, FiniteSets, TLC

VARIABLES
    projects,   \* the record store's 'projects' collection: id -> document
    latest,     \* projects/<id>/analysis/latest: id -> document
    runs,       \* the background tasks: slot -> state of one run_full_analysis
    resp,       \* the answer to the last request of a handler that records it
    profiles    \* the record store's 'profiles' collection: uid -> document

vars == <<projects, latest, runs, resp, profiles>>

----------------------------------------------------------------------------
(* Bounds of the model.                                                    *)

MaxRuns == 2

\* One project: every run of the model is a run for it.
ProjectIds == {1}
RunIds == 1..MaxRuns

Users == {"alice", "bob"}
GithubUrl == "https://github.com/alice/repo.git"

----------------------------------------------------------------------------
(* Python values.                                                          *)

\* None, and the value of dict.get on a key that is not there.
None == "<None>"

\* bool(s) of a str-or-None value.
Truthy(s) == s \notin {None, ""}

\* str.strip on the texts of the model.
Strip(s) ==
    CASE s = " " -> ""
      [] s = " text " -> "text"
      [] OTHER -> s

\* str.startswith("Failed to generate") on the texts of the model.
StartsWithFailedToGenerate(s) ==
    s \in { "Failed to generate documentation.",
            "Failed to generate class summary: Empty response from AI.",
            "Failed to generate class summary: <exception>",
            "Failed to generate: x" }

\* str(e) of the exceptions of the model.
StoreError == "<record store error>"
CleanupError == "<temporary directory cleanup error>"
UnexpectedError == "<unexpected error>"
GitError == "<git command error>"

\* create_project: the last path component of the URL, a trailing .git removed.
ProjectNameOf(url) ==
    CASE url = "https://github.com/alice/repo.git" -> "repo"
      [] url = "https://github.com/alice/repo" -> "repo"
      [] OTHER -> url

----------------------------------------------------------------------------
(* The text-generation service: one call either raises or answers with the *)
(* message content.                                                        *)

GenRaise == "<raise>"
Contents == {None, "", " ", " text ", "Failed to generate: x"}
GenOutcomes == {GenRaise} \cup Contents

\* The outcomes the pipeline is to treat as a failed call.
FailedOutcomes == {GenRaise, None, ""}

DocFailure == "Failed to generate documentation."

\* _generate_doc_for_snippet with the placeholder of lines 180 and 184 left
\* out: a failed call gives the empty text.
_generate_doc_for_snippet_NoPlaceholder(code_snippet, language, o) ==
    IF ~Truthy(code_snippet) \/ Strip(code_snippet) = ""
    THEN [ret |-> "", called |-> FALSE]
    ELSE [ret |-> IF o = GenRaise THEN ""
                  ELSE IF Truthy(o) THEN Strip(o) ELSE "",
          called |-> TRUE]

\* _generate_doc_for_snippet: the returned text, and whether the service
\* was called.
_generate_doc_for_snippet(code_snippet, language, o) ==
    IF ~Truthy(code_snippet) \/ Strip(code_snippet) = ""
    THEN [ret |-> "", called |-> FALSE]
    ELSE [ret |-> IF o = GenRaise THEN DocFailure
                  ELSE IF Truthy(o) THEN Strip(o) ELSE DocFailure,
          called |-> TRUE]

NoClassCode == "No class code available for summary generation."
SummaryEmpty == "Failed to generate class summary: Empty response from AI."
SummaryRaised == "Failed to generate class summary: <exception>"

\* _generate_class_summary.
_generate_class_summary(class_snippet, method_docs, language, o) ==
    IF ~Truthy(class_snippet) \/ Strip(class_snippet) = ""
    THEN [ret |-> NoClassCode, called |-> FALSE]
    ELSE [ret |-> IF o = GenRaise THEN SummaryRaised
                  ELSE IF ~Truthy(o) \/ Strip(o) = "" THEN SummaryEmpty
                  ELSE Strip(o),
          called |-> TRUE]

\* The fallback list of _generate_project_readme.
models_to_try == <<"llama-3.1-8b-instant", "mixtral-8x7b-32768", "llama3-8b-8192">>

----------------------------------------------------------------------------
(* The working tree a clone leaves in the temporary directory, in the      *)
(* order os.walk visits it.  A file is [dirs, name, ext, raises, ast,      *)
(* matches]: the directories between the root and the file, whether        *)
(* reading or parsing its text raises, and its text as its extractor sees  *)
(* it: the syntax tree ast.parse builds of a Python file, the matches      *)
(* re.finditer yields for the four patterns in a JavaScript file.           *)

\* The nodes of a Python syntax tree: a name and a body of nodes.
FunctionDef(name, body) == [node |-> "FunctionDef", name |-> name, body |-> body]
AsyncFunctionDef(name, body) == [node |-> "AsyncFunctionDef", name |-> name, body |-> body]
ClassDef(name, body) == [node |-> "ClassDef", name |-> name, body |-> body]
\* An if statement, and a statement with no body.
IfStmt(body) == [node |-> "If", name |-> None, body |-> body]
Pass == [node |-> "Pass", name |-> None, body |-> <<>>]

\* A match of a pattern: the name it captured and its span in the text.
Match(name, start, end) == [name |-> name, start |-> start, end |-> end]

\* A match of class_pattern, with the matches of method_pattern in its body.
ClassMatch(name, start, end, methods) ==
    [name |-> name, start |-> start, end |-> end, methods |-> methods]

Matches(classes, functions, arrows) ==
    [classes |-> classes, functions |-> functions, arrows |-> arrows]

NoMatches == Matches(<<>>, <<>>, <<>>)

PyFile(dirs, name, ast) ==
    [dirs |-> dirs, name |-> name, ext |-> ".py", raises |-> FALSE,
     ast |-> ast, matches |-> NoMatches]

JsFile(dirs, name, ext, matches) ==
    [dirs |-> dirs, name |-> name, ext |-> ext, raises |-> FALSE,
     ast |-> <<>>, matches |-> matches]

\* A file of no extractor.
OtherFile(dirs, name, ext) ==
    [dirs |-> dirs, name |-> name, ext |-> ext, raises |-> FALSE,
     ast |-> <<>>, matches |-> NoMatches]

\* A file whose text ast.parse rejects.
BadFile(dirs, name, ext) ==
    [dirs |-> dirs, name |-> name, ext |-> ext, raises |-> TRUE,
     ast |-> <<>>, matches |-> NoMatches]

TreeEmpty == <<>>

\* f.py:  def foo(): pass
TreeFunction == << PyFile(<<>>, "f.py", <<FunctionDef("foo", <<Pass>>)>>) >>

\* k.js:  class K { run() {} }
TreeClass ==
    << JsFile(<<>>, "k.js", ".js",
              Matches(<<ClassMatch("K", 0, 20, <<Match("run", 10, 18)>>)>>, <<>>, <<>>)) >>

\* c.py:  class A: pass   class B: pass
TreeTwoClasses ==
    << OtherFile(<<>>, "README.md", ".md"),
       PyFile(<<>>, "c.py", <<ClassDef("A", <<Pass>>), ClassDef("B", <<Pass>>)>>) >>

\* a.py:  class Bar:        src/b.jsx:  class Bar {}
\*            def baz(self): pass
TreeMixed ==
    << BadFile(<<>>, "bad.py", ".py"),
       PyFile(<<>>, "empty.py", <<>>),
       PyFile(<<>>, "a.py", <<ClassDef("Bar", <<FunctionDef("baz", <<Pass>>)>>)>>),
       PyFile(<<".git">>, "hook.py", <<FunctionDef("hook", <<Pass>>)>>),
       JsFile(<<"src">>, "b.jsx", ".jsx",
              Matches(<<ClassMatch("Bar", 0, 12, <<>>)>>, <<>>, <<>>)),
       JsFile(<<"src", "node_modules">>, "lib.js", ".js",
              Matches(<<>>, <<Match("lib", 0, 17)>>, <<>>)) >>

\* A Python class that defines a method twice: the extractor lists both.
TreeDup ==
    << PyFile(<<>>, "d.py",
              <<ClassDef("D", <<FunctionDef("go", <<Pass>>),
                                FunctionDef("go", <<Pass>>)>>)>>) >>

Trees == {TreeEmpty, TreeFunction, TreeClass, TreeTwoClasses, TreeMixed, TreeDup}

\* The trees of the runs of Spec, whose runs overlap.
SmallTrees == {TreeEmpty}

----------------------------------------------------------------------------
(* parser.py: the constructs, the two extractors and the dispatch on the   *)
(* file extension.  A construct is the dict of the extractor; a field the  *)
(* dict lacks reads None, as dict.get does, and has_methods is whether it  *)
(* has the key 'methods'.  The snippet stands for the source text.          *)

Fn(name) ==
    [name |-> name, type |-> "function", code_snippet |-> "def " \o name,
     parent_class |-> None, has_methods |-> FALSE, methods |-> <<>>,
     documentation |-> None, file_path |-> None, language |-> None]

Method(name, class) ==
    [name |-> name, type |-> "method", code_snippet |-> "def " \o name,
     parent_class |-> class, has_methods |-> FALSE, methods |-> <<>>,
     documentation |-> None, file_path |-> None, language |-> None]

\* A class construct.  An entry of `methods` is the dict of a method; ref is
\* the position of that same dict in the extractor's list (0: the dict is
\* in no list, as for a duplicate the JavaScript extractor dropped).
Class(name, methods) ==
    [name |-> name, type |-> "class", code_snippet |-> "class " \o name,
     parent_class |-> None, has_methods |-> TRUE, methods |-> methods,
     documentation |-> None, file_path |-> None, language |-> None]

MRef(name, ref) == [name |-> name, type |-> "method", ref |-> ref]

IsFunctionDef(node) == node.node \in {"FunctionDef", "AsyncFunctionDef"}

\* parse_python_file with ast.walk in the place of tree.body: every
\* declaration of the file, at any depth, as a top-level one.
RECURSIVE PyBody_AnyDepth(_, _)
PyBody_AnyDepth(nodes, constructs) ==
    IF nodes = <<>> THEN constructs
    ELSE LET node == Head(nodes)
             here == IF IsFunctionDef(node) THEN <<Fn(node.name)>>
                     ELSE IF node.node = "ClassDef" THEN <<Class(node.name, <<>>)>>
                     ELSE <<>>
         IN  PyBody_AnyDepth(Tail(nodes),
                             PyBody_AnyDepth(node.body, constructs \o here))

\* Lines 17-51: the loop over tree.body.
RECURSIVE PyBody(_, _)
PyBody(nodes, constructs) ==
    IF nodes = <<>> THEN constructs
    ELSE LET node == Head(nodes)
             children == SelectSeq(node.body, IsFunctionDef)
             methods == [i \in DOMAIN children |->
                            MRef(children[i].name, Len(constructs) + 1 + i)]
         IN  IF IsFunctionDef(node)
             THEN PyBody(Tail(nodes), Append(constructs, Fn(node.name)))
             ELSE IF node.node = "ClassDef"
             THEN PyBody(Tail(nodes),
                         constructs \o <<Class(node.name, methods)>>
                         \o [i \in DOMAIN children |-> Method(children[i].name, node.name)])
             ELSE PyBody(Tail(nodes), constructs)

parse_python_file(f) == PyBody(f.ast, <<>>)

\* Line 92: the names a match of method_pattern is dropped for.
SkippedNames == {"constructor", "if", "for", "while", "switch"}

\* Lines 68-101: the matches of class_pattern, each with its methods before
\* it.
RECURSIVE JsClasses(_, _)
JsClasses(classes, constructs) ==
    IF classes = <<>> THEN constructs
    ELSE LET class_match == Head(classes)
             kept == SelectSeq(class_match.methods, LAMBDA m : m.name \notin SkippedNames)
             methods == [i \in DOMAIN kept |-> MRef(kept[i].name, Len(constructs) + i)]
         IN  JsClasses(Tail(classes),
                       constructs
                       \o [i \in DOMAIN kept |-> Method(kept[i].name, class_match.name)]
                       \o <<Class(class_match.name, methods)>>)

\* InsideClass without the test: no match is taken to be inside a class.
InsideClass_Never(match, classes) == FALSE

\* Lines 107-108 and 123-124: whether a match starts inside a class match.
InsideClass(match, classes) ==
    \E i \in DOMAIN classes :
        classes[i].start < match.start /\ match.start < classes[i].end

\* Lines 104-133: the matches of function_pattern, then those of
\* arrow_function_pattern, that start in no class.
JsFunctions(matches) ==
    LET top == SelectSeq(matches.functions \o matches.arrows,
                         LAMBDA match : ~InsideClass(match, matches.classes))
    IN  [i \in DOMAIN top |-> Fn(top[i].name)]

\* Lines 63-133: the list `constructs` before the duplicates are removed;
\* the refs of a methods list are positions in this list.
RawConstructs(f) == JsClasses(f.matches.classes, <<>>) \o JsFunctions(f.matches)

\* Line 139.
Key(construct) == <<construct.name, construct.type, construct.parent_class>>

\* KeptPositions without the test of line 140: every construct is kept.
KeptPositions_All(constructs) == [i \in DOMAIN constructs |-> i]

\* Lines 136-142: the positions of the constructs that are kept, the first
\* of every key.
KeptPositions(constructs) ==
    LET RECURSIVE Scan(_, _)
        Scan(i, seen) ==
            IF i > Len(constructs) THEN <<>>
            ELSE IF Key(constructs[i]) \in seen THEN Scan(i + 1, seen)
            ELSE <<i>> \o Scan(i + 1, seen \cup {Key(constructs[i])})
    IN  Scan(1, {})

\* Lines 135-144: unique_constructs.  The dicts are those of `constructs`,
\* so an entry of a methods list now refers to the new position of its
\* dict, or to none if the dict was dropped.
unique_constructs(constructs) ==
    LET kept == KeptPositions(constructs)
        NewRef(m) ==
            IF \E k \in DOMAIN kept : kept[k] = m.ref
            THEN [m EXCEPT !.ref = CHOOSE k \in DOMAIN kept : kept[k] = m.ref]
            ELSE [m EXCEPT !.ref = 0]
    IN  [k \in DOMAIN kept |->
            [constructs[kept[k]] EXCEPT !.methods = [i \in DOMAIN @ |-> NewRef(@[i])]]]

parse_javascript_file(f) == unique_constructs(RawConstructs(f))

\* parse_code_file without the branch of lines 157-159 for .js and .jsx.
parse_code_file_PythonOnly(f) ==
    IF f.ext # ".py" \/ f.raises \/ parse_python_file(f) = <<>> THEN <<>>
    ELSE << [file_path |-> f.name, language |-> "python",
             constructs |-> parse_python_file(f)] >>

\* parse_code_file: <<>> for None, <<parsed_data>> otherwise.
parse_code_file(f) ==
    LET language == IF f.ext = ".py" THEN "python" ELSE "javascript"
        all_items == IF f.ext = ".py" THEN parse_python_file(f)
                     ELSE parse_javascript_file(f)
    IN  IF f.ext \notin {".py", ".js", ".jsx"} THEN <<>>
        ELSE IF f.raises THEN <<>>
        ELSE IF all_items = <<>> THEN <<>>
        ELSE << [file_path |-> f.name, language |-> language,
                 constructs |-> all_items] >>

\* The directory names os.walk is told not to descend into.
SkipDirs == {".git", "node_modules", "build", "dist", "__pycache__", ".venv"}

\* WalkFiles with line 271 applied to the directories of the root only.
WalkFiles_PrunesRootOnly(tree) ==
    SelectSeq(tree, LAMBDA f : f.dirs = <<>> \/ f.dirs[1] \notin SkipDirs)

\* The files os.walk yields: those with no pruned directory above them.
WalkFiles(tree) ==
    SelectSeq(tree, LAMBDA f : \A i \in DOMAIN f.dirs : f.dirs[i] \notin SkipDirs)

----------------------------------------------------------------------------
(* The locals of run_full_analysis between the clone and the first write   *)
(* of the result (lines 268-392), and its steps.  `calls` (the             *)
(* text-generation calls issued so far, each with what the service did)    *)
(* and `answered` are history kept for the properties.                     *)

\* Whether the service gave a text: it neither raised nor answered empty.
Answered(o) == o \notin FailedOutcomes

InitPipe(project_name, tree) ==
    [ phase |-> "walk",
      project_name |-> project_name,
      files |-> WalkFiles(tree),      \* what os.walk will yield
      fi |-> 1,                       \* the next file
      cur |-> <<>>,                   \* parsed_data of the file in stage 1
      ci |-> 1,                       \* the next construct of cur
      analysis_results |-> <<>>,
      total_files |-> 0,
      parsed_files |-> 0,
      languages |-> {},
      classes |-> <<>>,               \* unique_classes, in insertion order
      ki |-> 1,                       \* the next class
      class_summaries |-> <<>>,       \* the dict, as its items in order
      mi |-> 1,                       \* the next model of models_to_try
      readme_content |-> <<>>,        \* the text, as the pieces joined
      calls |-> <<>>,
      answered |-> FALSE ]            \* whether a call gave a text so far

\* VisitFile with the counter of line 274 moved to line 291: a file is
\* counted when it is parsed.
VisitFile_CountsParsedOnly(p) ==
    LET parsed_data == parse_code_file(p.files[p.fi])
    IN  IF parsed_data = <<>>
        THEN [p EXCEPT !.fi = @ + 1]
        ELSE [p EXCEPT !.total_files = @ + 1, !.cur = parsed_data, !.ci = 1]

\* Lines 273-280 and 294-296: one file of the walk, up to its extraction.
VisitFile(p) ==
    LET parsed_data == parse_code_file(p.files[p.fi])
    IN  IF parsed_data = <<>>
        THEN [p EXCEPT !.total_files = @ + 1, !.fi = @ + 1]
        ELSE [p EXCEPT !.total_files = @ + 1, !.cur = parsed_data, !.ci = 1]

\* Stage1Construct keeping what a construct was documented with before:
\* the new text is appended to the old.
Stage1Construct_Appends(construct, language, o) ==
    LET docstring == _generate_doc_for_snippet(construct.code_snippet, language, o).ret
    IN  IF Truthy(construct.code_snippet)
        THEN [construct EXCEPT !.documentation =
                 IF Truthy(@) THEN @ \o docstring ELSE docstring]
        ELSE construct

\* Lines 283-288: stage 1 for one construct, the service doing o.
Stage1Construct(construct, language, o) ==
    IF Truthy(construct.code_snippet)
    THEN [construct EXCEPT !.documentation =
             _generate_doc_for_snippet(construct.code_snippet, language, o).ret]
    ELSE construct

\* Lines 281-288: stage 1 for a parsed file, the service doing
\* service[<<snippet, language>>] when asked about a snippet.
Stage1(parsed_data, service) ==
    [parsed_data EXCEPT !.constructs =
        [i \in DOMAIN @ |->
            Stage1Construct(@[i], parsed_data.language,
                            service[<<@[i].code_snippet, parsed_data.language>>])]]

\* DocConstruct with lines 291-292 indented into the loop over the
\* constructs: the file is counted once for each of them.
DocConstruct_CountsConstructs(p, o) ==
    LET parsed_data == p.cur[1]
        construct == parsed_data.constructs[p.ci]
        gen == _generate_doc_for_snippet(construct.code_snippet, parsed_data.language, o)
        documented ==
            [parsed_data EXCEPT !.constructs[p.ci].documentation = gen.ret]
        calls ==
            Append(p.calls, [stage |-> 1, target |-> construct.name,
                             model |-> models_to_try[1], response |-> o])
        answered == p.answered \/ Answered(o)
    IN  IF p.ci < Len(parsed_data.constructs)
        THEN [p EXCEPT !.cur = <<documented>>, !.ci = @ + 1, !.calls = calls,
                       !.answered = answered,
                       !.parsed_files = @ + 1,
                       !.languages = @ \cup {documented.language}]
        ELSE [p EXCEPT !.cur = <<>>, !.ci = 1, !.fi = @ + 1, !.calls = calls,
                       !.answered = answered,
                       !.analysis_results = Append(@, documented),
                       !.parsed_files = @ + 1,
                       !.languages = @ \cup {documented.language}]

\* Lines 282-293: stage 1 for one construct of the current file; after the
\* last construct the file is appended to the results.
DocConstruct(p, o) ==
    LET parsed_data == p.cur[1]
        construct == parsed_data.constructs[p.ci]
        gen == _generate_doc_for_snippet(construct.code_snippet, parsed_data.language, o)
        documented ==
            [parsed_data EXCEPT !.constructs[p.ci] =
                Stage1Construct(construct, parsed_data.language, o)]
        calls ==
            IF Truthy(construct.code_snippet) /\ gen.called
            THEN Append(p.calls, [stage |-> 1, target |-> construct.name,
                                  model |-> models_to_try[1], response |-> o])
            ELSE p.calls
        answered == p.answered \/ (calls # p.calls /\ Answered(o))
    IN  IF p.ci < Len(parsed_data.constructs)
        THEN [p EXCEPT !.cur = <<documented>>, !.ci = @ + 1, !.calls = calls,
                       !.answered = answered]
        ELSE [p EXCEPT !.cur = <<>>, !.ci = 1, !.fi = @ + 1, !.calls = calls,
                       !.answered = answered,
                       !.analysis_results = Append(@, documented),
                       !.parsed_files = @ + 1,
                       !.languages = @ \cup {documented.language}]

\* The flattened list all_constructs, as places <<file, construct>> in
\* analysis_results (the list holds the dicts themselves, not copies).
RECURSIVE Places(_, _)
Places(results, f) ==
    IF f > Len(results) THEN <<>>
    ELSE [i \in 1..Len(results[f].constructs) |-> <<f, i>>] \o Places(results, f + 1)

all_constructs(results) == Places(results, 1)

At(results, place) == results[place[1]].constructs[place[2]]

\* UniqueClasses without the test of line 319 for a name already seen.
RECURSIVE UniqueClasses_EveryConstruct(_, _, _)
UniqueClasses_EveryConstruct(results, places, seen) ==
    IF places = <<>> THEN <<>>
    ELSE LET c == At(results, Head(places))
         IN  IF c.type = "class" /\ Truthy(c.name)
             THEN <<Head(places)>> \o UniqueClasses_EveryConstruct(results, Tail(places), seen)
             ELSE UniqueClasses_EveryConstruct(results, Tail(places), seen)

\* Lines 315-320: the first class construct of every class name.
RECURSIVE UniqueClasses(_, _, _)
UniqueClasses(results, places, seen) ==
    IF places = <<>> THEN <<>>
    ELSE LET c == At(results, Head(places))
         IN  IF c.type = "class" /\ Truthy(c.name) /\ c.name \notin seen
             THEN <<Head(places)>> \o UniqueClasses(results, Tail(places), seen \cup {c.name})
             ELSE UniqueClasses(results, Tail(places), seen)

\* Lines 298-322: the walk is over; label every construct with its file,
\* and find the classes.
CollectClasses(p) ==
    LET labelled ==
            [f \in 1..Len(p.analysis_results) |->
                [p.analysis_results[f] EXCEPT !.constructs =
                    [i \in 1..Len(@) |->
                        [@[i] EXCEPT !.file_path = p.analysis_results[f].file_path,
                                     !.language = p.analysis_results[f].language]]]]
    IN  [p EXCEPT !.phase = "stage2", !.analysis_results = labelled,
                  !.classes = UniqueClasses(labelled, all_constructs(labelled), {}),
                  !.ki = 1]

----------------------------------------------------------------------------
(* Stage 2: one summary per class.                                         *)

\* dict[key] = value on a dict kept as the sequence of its items.
DictSet(d, key, value) ==
    IF \E i \in DOMAIN d : d[i].name = key
    THEN [i \in DOMAIN d |-> IF d[i].name = key THEN [d[i] EXCEPT !.summary = value] ELSE d[i]]
    ELSE Append(d, [name |-> key, summary |-> value])

DictKeys(d) == {d[i].name : i \in DOMAIN d}

\* Lines 329-339: the documented constructs whose parent_class is the class.
RECURSIVE ByParentClass(_, _, _)
ByParentClass(results, places, class_name) ==
    IF places = <<>> THEN <<>>
    ELSE LET c == At(results, Head(places))
             rest == ByParentClass(results, Tail(places), class_name)
         IN  IF c.type \in {"method", "function"} /\ c.parent_class = class_name
                /\ Truthy(c.documentation)
             THEN <<[name |-> c.name, documentation |-> c.documentation, type |-> c.type]>>
                  \o rest
             ELSE rest

\* method.get("documentation") of an entry of a class's methods list: the
\* entry is the dict stage 1 documented when it is in the construct list.
MethodDoc(results, file, m) ==
    IF m.ref = 0 THEN None ELSE results[file].constructs[m.ref].documentation

\* Lines 341-351: the documented entries of the class's own methods list.
RECURSIVE ByMethodsList(_, _, _)
ByMethodsList(results, file, methods) ==
    IF methods = <<>> THEN <<>>
    ELSE LET m == Head(methods)
             rest == ByMethodsList(results, file, Tail(methods))
         IN  IF Truthy(MethodDoc(results, file, m))
             THEN <<[name |-> m.name, documentation |-> MethodDoc(results, file, m),
                     type |-> m.type]>> \o rest
             ELSE rest

\* UniqueMethods keeping the last entry of a name instead of the first.
RECURSIVE UniqueMethods_LastWins(_, _)
UniqueMethods_LastWins(methods, seen_methods) ==
    IF methods = <<>> THEN <<>>
    ELSE IF \E i \in DOMAIN Tail(methods) : Tail(methods)[i].name = Head(methods).name
         THEN UniqueMethods_LastWins(Tail(methods), seen_methods)
         ELSE <<Head(methods)>> \o UniqueMethods_LastWins(Tail(methods), seen_methods)

\* Lines 353-362: the first entry of every name.
RECURSIVE UniqueMethods(_, _)
UniqueMethods(methods, seen_methods) ==
    IF methods = <<>> THEN <<>>
    ELSE IF Head(methods).name \in seen_methods
         THEN UniqueMethods(Tail(methods), seen_methods)
         ELSE <<Head(methods)>>
              \o UniqueMethods(Tail(methods), seen_methods \cup {Head(methods).name})

methods_for_class(results, place) ==
    LET class_construct == At(results, place)
    IN  UniqueMethods(
            ByParentClass(results, all_constructs(results), class_construct.name)
            \o (IF class_construct.has_methods
                THEN ByMethodsList(results, place[1], class_construct.methods)
                ELSE <<>>),
            {})

\* KeepsSummary without the test for the failure texts: whatever
\* _generate_class_summary returns is stored.
KeepsSummary_Everything(summary) == Truthy(summary)

\* Lines 373-377: whether the returned summary is stored.
KeepsSummary(summary) == Truthy(summary) /\ ~StartsWithFailedToGenerate(summary)

\* Lines 324-381: one class of unique_classes.
SummarizeClass(p, o) ==
    LET place == p.classes[p.ki]
        class_construct == At(p.analysis_results, place)
        methods == methods_for_class(p.analysis_results, place)
        gen == _generate_class_summary(class_construct.code_snippet, methods,
                                       class_construct.language, o)
        asked == Truthy(class_construct.code_snippet)
    IN  [p EXCEPT
            !.ki = @ + 1,
            !.answered = @ \/ (asked /\ gen.called /\ Answered(o)),
            !.calls = IF asked /\ gen.called
                      THEN Append(@, [stage |-> 2, target |-> class_construct.name,
                                      model |-> models_to_try[1], response |-> o])
                      ELSE @,
            !.class_summaries = IF asked /\ KeepsSummary(gen.ret)
                                THEN DictSet(@, class_construct.name, gen.ret)
                                ELSE @ ]

----------------------------------------------------------------------------
(* Stage 3: the project README.  A text is the sequence of the pieces it   *)
(* is the concatenation of.                                                *)

\* Line 392.
MinimalReadme(project_name) ==
    <<"# ", project_name, "\n\nNo classes were found to generate a detailed README.">>

\* Lines 461-479.
BasicReadme(p) ==
    <<"# ", p.project_name, "## Project Overview: ", ToString(p.total_files), " files, ",
      ToString(p.parsed_files), " parsed. ## Tech Stack ## Project Structure ## Getting Started">>

\* Lines 565-566.
RECURSIVE ClassSections(_)
ClassSections(class_summaries) ==
    IF class_summaries = <<>> THEN <<>>
    ELSE <<"### ", Head(class_summaries).name, "\n", Head(class_summaries).summary, "\n\n">>
         \o ClassSections(Tail(class_summaries))

\* Lines 546-579.
FallbackReadme(p) ==
    <<"# ", p.project_name, "## Overview: ", ToString(p.parsed_files), " parsed files, ",
      ToString(Cardinality(p.languages)), " languages. ## Tech Stack: ",
      ToString(p.total_files), " files. ## Key Components\n">>
    \o ClassSections(p.class_summaries)
    \o <<"## Getting Started ## Notes">>

\* BeginReadme without the tests of lines 385 and 461: the README is asked
\* of the service whatever class_summaries holds.
BeginReadme_AlwaysAsks(p) == [p EXCEPT !.phase = "stage3", !.mi = 1]

\* Lines 383-392 and 461: stage 2 is over.
BeginReadme(p) ==
    IF p.class_summaries # <<>>
    THEN IF p.class_summaries = <<>>
         THEN [p EXCEPT !.phase = "store", !.readme_content = BasicReadme(p)]
         ELSE [p EXCEPT !.phase = "stage3", !.mi = 1]
    ELSE [p EXCEPT !.phase = "store", !.readme_content = MinimalReadme(p.project_name)]

\* An exception that leaves lines 268-392 (a walk error, a print that
\* cannot encode its text, ...): the inner handler takes it, and the locals
\* are dead.
RaiseUnexpected(p) ==
    [InitPipe(p.project_name, <<>>) EXCEPT !.phase = "raised",
                                           !.total_files = p.total_files,
                                           !.answered = p.answered]

\* AcceptsReadme with the test for a whitespace-only answer left out.
AcceptsReadme_NoStrip(o) == o # GenRaise /\ Truthy(o)

\* Line 531: whether the answer of a model ends the loop.
AcceptsReadme(o) == o # GenRaise /\ Truthy(o) /\ Strip(o) # ""

\* ReadmeCall with the return at line 533 left out: the answer is kept and
\* the loop goes on to the next model.
ReadmeCall_NoBreak(p, o) ==
    LET called == [p EXCEPT !.calls = Append(@, [stage |-> 3, target |-> p.project_name,
                                                 model |-> models_to_try[p.mi],
                                                 response |-> o]),
                            !.answered = @ \/ Answered(o)]
        kept == IF AcceptsReadme(o) THEN [called EXCEPT !.readme_content = <<Strip(o)>>]
                ELSE called
    IN  IF p.mi < Len(models_to_try)
        THEN [kept EXCEPT !.mi = @ + 1]
        ELSE IF kept.readme_content # <<>> THEN [kept EXCEPT !.phase = "store"]
        ELSE [kept EXCEPT !.phase = "store", !.readme_content = FallbackReadme(p)]

\* ReadmeCall with the handler of lines 546-579 left out: the exception of
\* line 544 leaves _generate_project_readme.
ReadmeCall_Reraises(p, o) ==
    LET called == [p EXCEPT !.calls = Append(@, [stage |-> 3, target |-> p.project_name,
                                                 model |-> models_to_try[p.mi],
                                                 response |-> o]),
                            !.answered = @ \/ Answered(o)]
    IN  IF AcceptsReadme(o)
        THEN [called EXCEPT !.phase = "store", !.readme_content = <<Strip(o)>>]
        ELSE IF p.mi < Len(models_to_try)
        THEN [called EXCEPT !.mi = @ + 1]
        ELSE RaiseUnexpected(called)

\* Lines 520-579: one model of the fallback list; after the last one has
\* failed, the README is built locally.
ReadmeCall(p, o) ==
    LET called == [p EXCEPT !.calls = Append(@, [stage |-> 3, target |-> p.project_name,
                                                 model |-> models_to_try[p.mi],
                                                 response |-> o]),
                            !.answered = @ \/ Answered(o)]
    IN  IF AcceptsReadme(o)
        THEN [called EXCEPT !.phase = "store", !.readme_content = <<Strip(o)>>]
        ELSE IF p.mi < Len(models_to_try)
        THEN [called EXCEPT !.mi = @ + 1]
        ELSE [called EXCEPT !.phase = "store", !.readme_content = FallbackReadme(p)]

----------------------------------------------------------------------------
(* The steps of the pipeline as a relation, and every way lines 268-392    *)
(* can end.                                                                *)

PipeDone(p) == p.phase \in {"store", "raised"}

AtVisit(p) == p.phase = "walk" /\ p.cur = <<>> /\ p.fi <= Len(p.files)
AtDoc(p) == p.phase = "walk" /\ p.cur # <<>>
\* AtCollect with stage 2 indented into the loop over the files: it starts
\* when a file is done, whether or not files are left.
AtCollect_InsideWalk(p) == p.phase = "walk" /\ p.cur = <<>>

AtCollect(p) == p.phase = "walk" /\ p.cur = <<>> /\ p.fi > Len(p.files)
AtSummary(p) == p.phase = "stage2" /\ p.ki <= Len(p.classes)
AtBeginReadme(p) == p.phase = "stage2" /\ p.ki > Len(p.classes)
AtReadme(p) == p.phase = "stage3"

PipeNext(p) ==
    (IF AtVisit(p) THEN {VisitFile(p)} ELSE {})
    \cup (IF AtDoc(p) THEN {DocConstruct(p, o) : o \in GenOutcomes} ELSE {})
    \cup (IF AtCollect(p) THEN {CollectClasses(p)} ELSE {})
    \cup (IF AtSummary(p) THEN {SummarizeClass(p, o) : o \in GenOutcomes} ELSE {})
    \cup (IF AtBeginReadme(p) THEN {BeginReadme(p)} ELSE {})
    \cup (IF AtReadme(p) THEN {ReadmeCall(p, o) : o \in GenOutcomes} ELSE {})
    \cup (IF ~PipeDone(p) THEN {RaiseUnexpected(p)} ELSE {})

RECURSIVE PipeResults(_)
PipeResults(p) ==
    IF PipeDone(p) THEN {p} ELSE UNION {PipeResults(q) : q \in PipeNext(p)}

\* Lines 395-401: the document written to analysis/latest.
analysis_data(p) ==
    [ files |-> p.analysis_results,
      class_summaries |-> p.class_summaries,
      readme_content |-> p.readme_content,
      stats |-> [total_files |-> p.total_files, parsed_files |-> p.parsed_files,
                 languages |-> p.languages],
      analyzed_at |-> "utcnow" ]

----------------------------------------------------------------------------
(* The record store.  `by` and `clobbered` are history kept for the        *)
(* properties: the run on whose behalf the status was last written (0:     *)
(* none),                                                                  *)
(* and whether a write of one run ever replaced the terminal status of     *)
(* another.                                                                *)

NoProject ==
    [ state |-> "none", name |-> None, github_url |-> None, owner_uid |-> None,
      status |-> None, error |-> None, last_analyzed |-> None,
      by |-> 0, clobbered |-> FALSE ]

NoData == [analysis_data(InitPipe(None, <<>>)) EXCEPT !.analyzed_at = None]

NoAnalysis == [exists |-> FALSE, by |-> 0, data |-> NoData]

Terminal == {"completed", "failed"}

Live(pid) == projects[pid].state = "live"

\* project_ref.update(fields) by or for run r, the document being there.
Updated(doc, r, fields) ==
    [ doc EXCEPT
        !.status = fields.status,
        !.error = IF "error" \in DOMAIN fields THEN fields.error ELSE @,
        !.last_analyzed = IF "last_analyzed" \in DOMAIN fields
                          THEN fields.last_analyzed ELSE @,
        !.by = r,
        !.clobbered = @ \/ (doc.status \in Terminal /\ doc.by # r) ]

\* What a write of the run may do: update raises on a document that is not
\* there, and any write may fail in the store.
UpdateOutcomes(pid) == IF Live(pid) THEN {"ok", "raise"} ELSE {"raise"}
SetOutcomes == {"ok", "raise"}

----------------------------------------------------------------------------
(* One background run.  Kept as history, for the properties: `writes` (the *)
(* status values the run wrote), `events` (read_failed: line 253 or 254    *)
(* raised; clone_failed; raised: a write to the store or lines 268-392     *)
(* raised; cleanup_raised; gen_answered: a text-generation call gave a     *)
(* text), `tree` (what the clone left) and                                 *)
(* `visited` (the files the walk visited).  `writes` and `events` are kept *)
(* for a run that is traced: the one run of SpecRun.  The locals `pst` are *)
(* dead once the result has been handed to the store.                      *)

NoPipe == [InitPipe(None, <<>>) EXCEPT !.phase = "none"]

UnusedRun ==
    [ pc |-> "unused", project_id |-> 0, github_url |-> None, project_name |-> None,
      tmp |-> "none", exc |-> None, pst |-> NoPipe,
      tree |-> <<>>, visited |-> 0,
      traced |-> FALSE, writes |-> <<>>, events |-> {} ]

Scheduled(pid, url) ==
    [UnusedRun EXCEPT !.pc = "scheduled", !.project_id = pid, !.github_url = url]

At_(r, pc) == runs[r].pc = pc

\* The history of a traced run, after an event and after a write.
Noted(run, events) ==
    IF run.traced THEN [run EXCEPT !.events = @ \cup events] ELSE run

Wrote(run, status) ==
    IF run.traced THEN [run EXCEPT !.writes = Append(@, status)] ELSE run

\* The run returns, or an exception leaves it.
Returned(run) == [run EXCEPT !.pc = "done", !.pst = NoPipe, !.exc = None]

\* The run r writes `fields` to its project: the new store and run state.
WriteStatus(r, fields, outcome, okPc, failPc) ==
    LET pid == runs[r].project_id
    IN  IF outcome = "ok"
        THEN /\ projects' = [projects EXCEPT ![pid] = Updated(@, r, fields)]
             /\ runs' = [runs EXCEPT ![r] = Wrote([@ EXCEPT !.pc = okPc], fields.status)]
        ELSE /\ projects' = projects
             /\ runs' = [runs EXCEPT ![r] =
                            Noted([@ EXCEPT !.pc = failPc, !.exc = StoreError], {"raised"})]

\* What the read of line 253 may do: the store answers or raises.
GetOutcomes == {"ok", "raise"}

\* Lines 252-254: the project document is read; to_dict() of a document that
\* is not there is None, and the exception leaves the task, as does an
\* exception of the read: the three lines are outside the try.
Start(r) ==
    /\ At_(r, "scheduled")
    /\ LET pid == runs[r].project_id
       IN  \E outcome \in GetOutcomes :
              IF Live(pid) /\ outcome = "ok"
              THEN runs' = [runs EXCEPT ![r].pc = "try",
                                        ![r].project_name = projects[pid].name]
              ELSE runs' = [runs EXCEPT ![r] =
                               Returned(Noted(@, {"read_failed"}))]
    /\ UNCHANGED <<projects, latest, resp, profiles>>

\* Lines 256-257.
WriteAnalyzing(r) ==
    /\ At_(r, "try")
    /\ \E outcome \in UpdateOutcomes(runs[r].project_id) :
          WriteStatus(r, [status |-> "analyzing"], outcome, "enter", "outer")
    /\ UNCHANGED <<latest, resp, profiles>>

\* Lines 259-262: the temporary directory is created.
EnterTmp(r) ==
    /\ At_(r, "enter")
    /\ runs' = [runs EXCEPT ![r].pc = "clone", ![r].tmp = "exists"]
    /\ UNCHANGED <<projects, latest, resp, profiles>>

\* Lines 263-266: the clone leaves a working tree or raises GitCommandError.
Clone(r) ==
    /\ At_(r, "clone")
    /\ \/ \E tree \in Trees :
             runs' = [runs EXCEPT ![r].pc = "pipeline", ![r].tree = tree,
                                  ![r].pst = InitPipe(runs[r].project_name, tree)]
       \/ runs' = [runs EXCEPT ![r] =
                      Noted([@ EXCEPT !.pc = "exceptGit", !.exc = GitError],
                            {"clone_failed"})]
    /\ UNCHANGED <<projects, latest, resp, profiles>>

\* The run r after lines 268-392 got to the locals q.
Piped(run, q) ==
    Noted([ run EXCEPT
              !.pst = q,
              !.visited = q.total_files,
              !.pc = IF q.phase = "store" THEN "set"
                     ELSE IF q.phase = "raised" THEN "exceptExc" ELSE @,
              !.exc = IF q.phase = "raised" THEN UnexpectedError ELSE @ ],
          (IF q.phase = "raised" THEN {"raised"} ELSE {})
              \cup (IF q.answered THEN {"gen_answered"} ELSE {}))

AfterPipe(r, q) == runs' = [runs EXCEPT ![r] = Piped(@, q)]

\* Lines 259-392 in one step (Spec): the directory, the clone, the walk
\* and the three stages touch no record of the store.
Work(r) ==
    /\ At_(r, "enter")
    /\ \/ \E tree \in SmallTrees :
             \E q \in PipeResults(InitPipe(runs[r].project_name, tree)) :
                runs' = [runs EXCEPT ![r] =
                            Piped([@ EXCEPT !.tmp = "exists", !.tree = tree], q)]
       \/ runs' = [runs EXCEPT ![r] =
                      Noted([@ EXCEPT !.tmp = "exists", !.pc = "exceptGit",
                                      !.exc = GitError],
                            {"clone_failed"})]
    /\ UNCHANGED <<projects, latest, resp, profiles>>

\* Lines 268-392 call by call (SpecRun).
VisitFileStep(r) ==
    /\ At_(r, "pipeline") /\ AtVisit(runs[r].pst)
    /\ AfterPipe(r, VisitFile(runs[r].pst))
    /\ UNCHANGED <<projects, latest, resp, profiles>>

DocStep(r) ==
    /\ At_(r, "pipeline") /\ AtDoc(runs[r].pst)
    /\ \E o \in GenOutcomes : AfterPipe(r, DocConstruct(runs[r].pst, o))
    /\ UNCHANGED <<projects, latest, resp, profiles>>

CollectStep(r) ==
    /\ At_(r, "pipeline") /\ AtCollect(runs[r].pst)
    /\ AfterPipe(r, CollectClasses(runs[r].pst))
    /\ UNCHANGED <<projects, latest, resp, profiles>>

SummaryStep(r) ==
    /\ At_(r, "pipeline") /\ AtSummary(runs[r].pst)
    /\ \E o \in GenOutcomes : AfterPipe(r, SummarizeClass(runs[r].pst, o))
    /\ UNCHANGED <<projects, latest, resp, profiles>>

BeginReadmeStep(r) ==
    /\ At_(r, "pipeline") /\ AtBeginReadme(runs[r].pst)
    /\ AfterPipe(r, BeginReadme(runs[r].pst))
    /\ UNCHANGED <<projects, latest, resp, profiles>>

ReadmeStep(r) ==
    /\ At_(r, "pipeline") /\ AtReadme(runs[r].pst)
    /\ \E o \in GenOutcomes : AfterPipe(r, ReadmeCall(runs[r].pst, o))
    /\ UNCHANGED <<projects, latest, resp, profiles>>

RaiseStep(r) ==
    /\ At_(r, "pipeline") /\ ~PipeDone(runs[r].pst)
    /\ AfterPipe(r, RaiseUnexpected(runs[r].pst))
    /\ UNCHANGED <<projects, latest, resp, profiles>>

\* SetLatest with the exception of the write swallowed: the run goes on
\* to line 406 whether or not the record was written.
SetLatest_SwallowsError(r) ==
    /\ At_(r, "set")
    /\ \E outcome \in SetOutcomes :
          /\ latest' = IF outcome = "ok"
                       THEN [latest EXCEPT ![runs[r].project_id] =
                                [exists |-> TRUE, by |-> r,
                                 data |-> analysis_data(runs[r].pst)]]
                       ELSE latest
          /\ runs' = [runs EXCEPT ![r].pc = "complete", ![r].pst = NoPipe]
    /\ UNCHANGED <<projects, resp, profiles>>

\* Lines 394-404: analysis_ref.set(analysis_data).
SetLatest(r) ==
    /\ At_(r, "set")
    /\ \E outcome \in SetOutcomes :
          IF outcome = "ok"
          THEN /\ latest' = [latest EXCEPT ![runs[r].project_id] =
                                [exists |-> TRUE, by |-> r,
                                 data |-> analysis_data(runs[r].pst)]]
               /\ runs' = [runs EXCEPT ![r].pc = "complete", ![r].pst = NoPipe]
          ELSE /\ latest' = latest
               /\ runs' = [runs EXCEPT ![r] =
                              Noted([@ EXCEPT !.pc = "exceptExc", !.exc = StoreError,
                                              !.pst = NoPipe],
                                    {"raised"})]
    /\ UNCHANGED <<projects, resp, profiles>>

\* WriteCompleted with the error of an earlier failure cleared by the
\* write of line 407.
WriteCompleted_ClearsError(r) ==
    /\ At_(r, "complete")
    /\ \E outcome \in UpdateOutcomes(runs[r].project_id) :
          WriteStatus(r, [status |-> "completed", last_analyzed |-> "utcnow",
                          error |-> None],
                      outcome, "exit", "exceptExc")
    /\ UNCHANGED <<latest, resp, profiles>>

\* Lines 406-411.
WriteCompleted(r) ==
    /\ At_(r, "complete")
    /\ \E outcome \in UpdateOutcomes(runs[r].project_id) :
          WriteStatus(r, [status |-> "completed", last_analyzed |-> "utcnow"],
                      outcome, "exit", "exceptExc")
    /\ UNCHANGED <<latest, resp, profiles>>

CloneErrorText(e) == "Failed to clone repository: " \o e

\* ExceptGit without a handler of its own: the clone error is reported as
\* line 418 reports every other exception.
ExceptGit_Generic(r) ==
    /\ At_(r, "exceptGit")
    /\ \E outcome \in UpdateOutcomes(runs[r].project_id) :
          WriteStatus(r, [status |-> "failed", error |-> runs[r].exc],
                      outcome, "exit", "exitRaising")
    /\ UNCHANGED <<latest, resp, profiles>>

\* Lines 413-415: the handler of GitCommandError.
ExceptGit(r) ==
    /\ At_(r, "exceptGit")
    /\ \E outcome \in UpdateOutcomes(runs[r].project_id) :
          WriteStatus(r, [status |-> "failed", error |-> CloneErrorText(runs[r].exc)],
                      outcome, "exit", "exitRaising")
    /\ UNCHANGED <<latest, resp, profiles>>

\* Lines 416-418: the handler of every other exception of the inner try.
ExceptExc(r) ==
    /\ At_(r, "exceptExc")
    /\ \E outcome \in UpdateOutcomes(runs[r].project_id) :
          WriteStatus(r, [status |-> "failed", error |-> runs[r].exc],
                      outcome, "exit", "exitRaising")
    /\ UNCHANGED <<latest, resp, profiles>>

\* ExitTmp with the removal written after the body instead of as a context
\* manager: an exception that leaves the body skips it.
ExitTmp_SkippedByException(r) ==
    /\ runs[r].pc \in {"exit", "exitRaising"}
    /\ \/ runs' = [runs EXCEPT ![r] =
                      IF @.pc = "exit" THEN Returned([@ EXCEPT !.tmp = "removed"])
                      ELSE [@ EXCEPT !.pc = "outer"]]
       \/ runs' = [runs EXCEPT ![r] =
                      Noted([@ EXCEPT !.pc = "outer", !.exc = CleanupError],
                            {"cleanup_raised"})]
    /\ UNCHANGED <<projects, latest, resp, profiles>>

\* Line 262, leaving the with block: TemporaryDirectory.__exit__ removes
\* the directory, or raises while removing it.  An exception of a handler
\* goes on to the outer handler after the removal.
ExitTmp(r) ==
    /\ runs[r].pc \in {"exit", "exitRaising"}
    /\ \/ runs' = [runs EXCEPT ![r] =
                      IF @.pc = "exit" THEN Returned([@ EXCEPT !.tmp = "removed"])
                      ELSE [@ EXCEPT !.tmp = "removed", !.pc = "outer"]]
       \/ runs' = [runs EXCEPT ![r] =
                      Noted([@ EXCEPT !.pc = "outer", !.exc = CleanupError],
                            {"cleanup_raised"})]
    /\ UNCHANGED <<projects, latest, resp, profiles>>

\* The end of the outer handler.
OuterEnd(r, outcome) ==
    LET pid == runs[r].project_id
        fields == [status |-> "failed", error |-> runs[r].exc]
    IN  IF outcome = "ok"
        THEN /\ projects' = [projects EXCEPT ![pid] = Updated(@, r, fields)]
             /\ runs' = [runs EXCEPT ![r] = Returned(Wrote(@, fields.status))]
        ELSE /\ projects' = projects
             /\ runs' = [runs EXCEPT ![r] = Returned(Noted(@, {"raised"}))]

\* Lines 420-422: the outer handler; an exception of its write leaves the task.
Outer(r) ==
    /\ At_(r, "outer")
    /\ \E outcome \in UpdateOutcomes(runs[r].project_id) : OuterEnd(r, outcome)
    /\ UNCHANGED <<latest, resp, profiles>>

----------------------------------------------------------------------------
(* The HTTP handlers.                                                      *)

NoResponse == [op |-> "none", code |-> 0]

NoProfile == [exists |-> FALSE, displayName |-> None, bio |-> None]

\* create_project (lines 89-106): the store gives the document a fresh id.
create_project(uid, url) ==
    /\ \E pid \in ProjectIds :
          /\ projects[pid].state = "none"
          /\ \A other \in ProjectIds : other < pid => projects[other].state # "none"
          /\ projects' = [projects EXCEPT ![pid] =
                [NoProject EXCEPT !.state = "live", !.name = ProjectNameOf(url),
                                  !.github_url = url, !.owner_uid = uid,
                                  !.status = "created"]]
    /\ UNCHANGED <<latest, runs, resp, profiles>>

\* delete_project (lines 138-151): not found and not authorized change
\* nothing; otherwise the document goes and its analysis subcollection stays.
delete_project(uid, pid) ==
    /\ IF ~Live(pid) \/ projects[pid].owner_uid # uid
       THEN projects' = projects
       ELSE projects' = [projects EXCEPT ![pid] =
                [NoProject EXCEPT !.state = "deleted", !.clobbered = projects[pid].clobbered]]
    /\ UNCHANGED <<latest, runs, resp, profiles>>

\* Accepts without the test of lines 438-439: any caller may queue a run.
Accepts_AnyCaller(uid, pid) == Live(pid)

\* Accepts with a status guard: a project that is queued or being analysed
\* is not queued again.
Accepts_UnlessPending(uid, pid) ==
    /\ Live(pid) /\ projects[pid].owner_uid = uid
    /\ projects[pid].status \notin {"queued", "analyzing"}

\* Accepts with a lock: a project is not queued while a run for it is
\* scheduled or running.
Accepts_UnlessRunning(uid, pid) ==
    /\ Live(pid) /\ projects[pid].owner_uid = uid
    /\ \A r \in RunIds : runs[r].project_id = pid => runs[r].pc \in {"unused", "done"}

\* Lines 434-439: whether analyze_project goes on to queue a run.
Accepts(uid, pid) == Live(pid) /\ projects[pid].owner_uid = uid

FreeSlot(r) ==
    /\ runs[r].pc = "unused"
    /\ \A other \in RunIds : other < r => runs[other].pc # "unused"

\* analyze_project (lines 424-449).  The read of line 432 and the write of
\* line 444 are one step, and the store answers both.
analyze_project(uid, pid) ==
    IF ~Live(pid)
    THEN /\ resp' = [op |-> "analyze_project", code |-> 404]
         /\ UNCHANGED <<projects, latest, runs, profiles>>
    ELSE IF ~Accepts(uid, pid)
    THEN /\ resp' = [op |-> "analyze_project", code |-> 403]
         /\ UNCHANGED <<projects, latest, runs, profiles>>
    ELSE \E r \in RunIds :
            /\ FreeSlot(r)
            /\ projects' = [projects EXCEPT ![pid] = Updated(@, r, [status |-> "queued"])]
            /\ runs' = [runs EXCEPT ![r] = Scheduled(pid, projects[pid].github_url)]
            /\ resp' = [op |-> "analyze_project", code |-> 200]
            /\ UNCHANGED <<latest, profiles>>

----------------------------------------------------------------------------
(* Spec: the service.                                                      *)

\* get_profile (lines 64-73) reads; update_profile (lines 75-87) writes the
\* caller's document of 'profiles', creating it if need be.
update_profile(uid, displayName, bio) ==
    /\ profiles' = [profiles EXCEPT ![uid] =
            [exists |-> TRUE, displayName |-> displayName, bio |-> bio]]
    /\ resp' = [op |-> "update_profile", code |-> 200]
    /\ UNCHANGED <<projects, latest, runs>>

\* get_projects (lines 108-121): a query, answered with the caller's
\* documents.
get_projects(uid) ==
    /\ resp' = [op |-> "get_projects", code |-> 200]
    /\ UNCHANGED <<projects, latest, runs, profiles>>

\* update_project with set in the place of update at line 135: the document
\* is replaced by one that holds the name alone.
update_project_ReplacesDocument(uid, pid, name) ==
    IF ~Live(pid)
    THEN /\ resp' = [op |-> "update_project", code |-> 404]
         /\ UNCHANGED <<projects, latest, runs, profiles>>
    ELSE IF projects[pid].owner_uid # uid
    THEN /\ resp' = [op |-> "update_project", code |-> 403]
         /\ UNCHANGED <<projects, latest, runs, profiles>>
    ELSE /\ projects' = [projects EXCEPT ![pid] =
                [NoProject EXCEPT !.state = "live", !.name = name]]
         /\ resp' = [op |-> "update_project", code |-> 200]
         /\ UNCHANGED <<latest, runs, profiles>>

\* update_project (lines 123-136): the owner renames the project.
update_project(uid, pid, name) ==
    IF ~Live(pid)
    THEN /\ resp' = [op |-> "update_project", code |-> 404]
         /\ UNCHANGED <<projects, latest, runs, profiles>>
    ELSE IF projects[pid].owner_uid # uid
    THEN /\ resp' = [op |-> "update_project", code |-> 403]
         /\ UNCHANGED <<projects, latest, runs, profiles>>
    ELSE /\ projects' = [projects EXCEPT ![pid].name = name]
         /\ resp' = [op |-> "update_project", code |-> 200]
         /\ UNCHANGED <<latest, runs, profiles>>

\* get_project_analysis (lines 581-609): the owner reads analysis/latest.
get_project_analysis(uid, pid) ==
    /\ resp' = [op |-> "get_project_analysis",
                code |-> IF ~Live(pid) THEN 404
                         ELSE IF projects[pid].owner_uid # uid THEN 403
                         ELSE IF ~latest[pid].exists THEN 404
                         ELSE 200]
    /\ UNCHANGED <<projects, latest, runs, profiles>>

\* review_code_snippet (lines 732-761): a text-generation call for the
\* caller's snippet; whatever the service does, the answer is a 200.
review_code_snippet(uid, o) ==
    /\ resp' = [op |-> "review_code_snippet", code |-> 200]
    /\ UNCHANGED <<projects, latest, runs, profiles>>

Init ==
    /\ projects = [pid \in ProjectIds |-> NoProject]
    /\ latest = [pid \in ProjectIds |-> NoAnalysis]
    /\ runs = [r \in RunIds |-> UnusedRun]
    /\ resp = NoResponse
    /\ profiles = [uid \in Users |-> NoProfile]

RunControl(r) ==
    \/ Start(r)
    \/ WriteAnalyzing(r)
    \/ SetLatest(r)
    \/ WriteCompleted(r)
    \/ ExceptGit(r)
    \/ ExceptExc(r)
    \/ ExitTmp(r)
    \/ Outer(r)

Next ==
    \/ create_project("alice", GithubUrl)
    \/ \E uid \in Users, pid \in ProjectIds : delete_project(uid, pid)
    \/ \E uid \in Users, pid \in ProjectIds : analyze_project(uid, pid)
    \/ \E r \in RunIds : RunControl(r)
    \/ \E r \in RunIds : Work(r)

Spec == Init /\ [][Next]_vars

\* The name update_project is called with.
NewNames == {"renamed"}

\* SpecApi: the controller with the handlers that start no analysis.
NextApi ==
    \/ Next
    \/ update_profile("alice", "Al", "")
    \/ get_projects("alice")
    \/ \E uid \in Users, pid \in ProjectIds, name \in NewNames :
          update_project(uid, pid, name)
    \/ \E uid \in Users, pid \in ProjectIds : get_project_analysis(uid, pid)
    \/ \E o \in {GenRaise, " text "} : review_code_snippet("alice", o)

SpecApi == Init /\ [][NextApi]_vars

----------------------------------------------------------------------------
(* SpecRun: one execution of run_full_analysis, from the state              *)
(* analyze_project leaves, with or without the result of an earlier run.   *)

QueuedProject ==
    [NoProject EXCEPT !.state = "live", !.name = ProjectNameOf(GithubUrl),
                      !.github_url = GithubUrl, !.owner_uid = "alice",
                      !.status = "queued", !.by = 1]

\* The project deleted before the task started.
DeletedProject == [NoProject EXCEPT !.state = "deleted"]

\* The document an earlier run over an empty repository left.
EarlierAnalysis ==
    [ exists |-> TRUE, by |-> 0,
      data |-> analysis_data(BeginReadme(CollectClasses(InitPipe("repo", TreeEmpty)))) ]

InitRun ==
    /\ projects \in [ProjectIds -> {QueuedProject, DeletedProject}]
    /\ latest \in [ProjectIds -> {NoAnalysis, EarlierAnalysis}]
    /\ runs = [r \in RunIds |-> IF r = 1
                                 THEN [Scheduled(1, GithubUrl) EXCEPT !.traced = TRUE]
                                 ELSE UnusedRun]
    /\ resp = [op |-> "analyze_project", code |-> 200]
    /\ profiles = [uid \in Users |-> NoProfile]

NextRun ==
    \/ \E r \in RunIds : RunControl(r)
    \/ \E r \in RunIds : EnterTmp(r)
    \/ \E r \in RunIds : Clone(r)
    \/ \E r \in RunIds : VisitFileStep(r)
    \/ \E r \in RunIds : DocStep(r)
    \/ \E r \in RunIds : CollectStep(r)
    \/ \E r \in RunIds : SummaryStep(r)
    \/ \E r \in RunIds : BeginReadmeStep(r)
    \/ \E r \in RunIds : ReadmeStep(r)
    \/ \E r \in RunIds : RaiseStep(r)

SpecRun == InitRun /\ [][NextRun]_vars

\* SpecRunFair: the run is a task of the server's thread pool, and every
\* call it makes returns or raises: it always takes its next step.
SpecRunFair == InitRun /\ [][NextRun]_vars /\ WF_vars(NextRun)

----------------------------------------------------------------------------
(* SpecWalk: the walk and stage 1 of a run, from the state the clone       *)
(* leaves, over working trees of one file each that show what the two      *)
(* extractors do, and over the tree of two files a.py and b.js.            *)

\* def outer():
\*     def inner(): pass
PyNested ==
    PyFile(<<>>, "p_nested.py",
           <<FunctionDef("outer", <<FunctionDef("inner", <<Pass>>)>>)>>)

\* class A:
\*     def m(self):
\*         def h(): pass
\*     class B:
\*         def n(self): pass
PyDeep ==
    PyFile(<<>>, "p_deep.py",
           <<ClassDef("A", <<FunctionDef("m", <<FunctionDef("h", <<Pass>>)>>),
                             ClassDef("B", <<FunctionDef("n", <<Pass>>)>>)>>)>>)

\* class A:
\*     def m1(self): pass
\* class A:
\*     def m2(self): pass
PyTwoA ==
    PyFile(<<>>, "p_twoA.py",
           <<ClassDef("A", <<FunctionDef("m1", <<Pass>>)>>),
             ClassDef("A", <<FunctionDef("m2", <<Pass>>)>>)>>)

\* async def fetch(): pass
\* class S:
\*     async def run(self): pass
PyAsync ==
    PyFile(<<>>, "p_async.py",
           <<AsyncFunctionDef("fetch", <<Pass>>),
             ClassDef("S", <<AsyncFunctionDef("run", <<Pass>>)>>)>>)

\* import os
\* if os.name:
\*     def guarded(): pass
PyIf ==
    PyFile(<<>>, "p_if.py", <<Pass, IfStmt(<<FunctionDef("guarded", <<Pass>>)>>)>>)

\* def foo(): pass
\* class Bar:
\*     def baz(self): pass
PyScenario ==
    PyFile(<<>>, "a.py",
           <<FunctionDef("foo", <<Pass>>),
             ClassDef("Bar", <<FunctionDef("baz", <<Pass>>)>>)>>)

\* function qux(){}
JsQux == JsFile(<<>>, "b.js", ".js", Matches(<<>>, <<Match("qux", 0, 16)>>, <<>>))

\* class K { run() {} run() {} }
JsDup ==
    JsFile(<<>>, "j_dup.js", ".js",
           Matches(<<ClassMatch("K", 0, 29, <<Match("run", 10, 18), Match("run", 19, 27)>>)>>,
                   <<>>, <<>>))

\* class K { m() { const f = (a) => a*2; } }
\* const g = (x) => x;
\* function h() {}
JsArrow ==
    JsFile(<<>>, "j_arrow.js", ".js",
           Matches(<<ClassMatch("K", 0, 41, <<Match("m", 10, 39)>>)>>,
                   <<Match("h", 62, 77)>>,
                   <<Match("f", 16, 36), Match("g", 42, 60)>>))

\* class K { x = function foo() { } }
JsField ==
    JsFile(<<>>, "j_field.js", ".js",
           Matches(<<ClassMatch("K", 0, 34, <<Match("foo", 23, 32)>>)>>,
                   <<Match("foo", 14, 32)>>, <<>>))

\* function f() {}
\* const f = () => 1;
JsSame ==
    JsFile(<<>>, "j_same.js", ".js",
           Matches(<<>>, <<Match("f", 0, 15)>>, <<Match("f", 16, 33)>>))

\* class A { m1() {} }
\* class A { m2() {} }
JsTwoA ==
    JsFile(<<>>, "j_twoA.js", ".js",
           Matches(<<ClassMatch("A", 0, 19, <<Match("m1", 10, 17)>>),
                     ClassMatch("A", 20, 39, <<Match("m2", 30, 37)>>)>>,
                   <<>>, <<>>))

\* class E { constructor() {} }
JsCtor ==
    JsFile(<<>>, "j_ctor.js", ".js",
           Matches(<<ClassMatch("E", 0, 28, <<Match("constructor", 10, 26)>>)>>,
                   <<>>, <<>>))

\* class K { m() { if (x) { y(); } } }   (two levels of braces in the body:
\* class_pattern does not match)
JsDeep == JsFile(<<>>, "j_deep.js", ".js", NoMatches)

Sources ==
    {PyNested, PyDeep, PyTwoA, PyAsync, PyIf, PyScenario,
     JsQux, JsDup, JsArrow, JsField, JsSame, JsTwoA, JsCtor, JsDeep}

TreeScenario == <<PyScenario, JsQux>>

WalkTrees == {<<f>> : f \in Sources} \cup {TreeScenario}

\* The run 1 after lines 252-266, and its project.
Cloned(tree) ==
    [Scheduled(1, GithubUrl) EXCEPT
        !.traced = TRUE, !.pc = "pipeline", !.tmp = "exists",
        !.project_name = ProjectNameOf(GithubUrl), !.tree = tree,
        !.pst = InitPipe(ProjectNameOf(GithubUrl), tree),
        !.writes = <<"analyzing">>]

InitWalk ==
    /\ projects = [pid \in ProjectIds |->
                      Updated(QueuedProject, 1, [status |-> "analyzing"])]
    /\ latest = [pid \in ProjectIds |-> NoAnalysis]
    /\ \E tree \in WalkTrees :
          runs = [r \in RunIds |-> IF r = 1 THEN Cloned(tree) ELSE UnusedRun]
    /\ resp = [op |-> "analyze_project", code |-> 200]
    /\ profiles = [uid \in Users |-> NoProfile]

NextWalk ==
    \/ \E r \in RunIds : VisitFileStep(r)
    \/ \E r \in RunIds : DocStep(r)
    \/ \E r \in RunIds : CollectStep(r)

SpecWalk == InitWalk /\ [][NextWalk]_vars

----------------------------------------------------------------------------
(* Properties.  Each is checked under the specification named with it.     *)

Done(r) == runs[r].pc = "done"

\* The run got as far as creating its temporary directory.
Entered(r) == runs[r].tmp # "none"

\* The files of a tree the walk hands on to stage 1.
ParsedFiles(tree) == SelectSeq(WalkFiles(tree), LAMBDA f : parse_code_file(f) # <<>>)

\* The calls of one stage in the log of a pipeline state.
CallsOf(p, stage) == SelectSeq(p.calls, LAMBDA c : c.stage = stage)

\* The call raised, or answered nothing but whitespace.
BlankOrRaised(o) == o = GenRaise \/ o = None \/ Strip(o) = ""

NonEmptyText(text) == \E i \in DOMAIN text : text[i] # ""

ClassNames(p) == {At(p.analysis_results, p.classes[k]).name : k \in DOMAIN p.classes}

AfterStage1(p) == p.phase \in {"stage2", "stage3", "store"}
AfterStage2(p) == p.phase \in {"stage3", "store"}

\* C1 (SpecRun): a run writes a terminal status (completed or failed) at
\* most once, and writes no status after it: a terminal status is the last
\* entry of the run's writes.
C1_TerminalStatusWrittenOnce ==
    \A r \in RunIds : \A i \in DOMAIN runs[r].writes :
        runs[r].writes[i] \in Terminal => i = Len(runs[r].writes)

\* C2 (Spec): a request by the owner of an existing project is accepted
\* whatever the status of the project is: the step writes queued, answers
\* 200 and schedules a run; and the write with which a run leaves line 257
\* sets analyzing, whatever the status was.
C2_AcceptedFromAnyStatus ==
    [][ /\ \A uid \in Users, pid \in ProjectIds :
              (analyze_project(uid, pid) /\ Live(pid) /\ projects[pid].owner_uid = uid)
              => /\ projects'[pid].status = "queued"
                 /\ resp'.code = 200
                 /\ \E r \in RunIds : /\ runs[r].pc = "unused"
                                      /\ runs'[r] = Scheduled(pid, projects[pid].github_url)
        /\ \A r \in RunIds :
              (WriteAnalyzing(r) /\ runs'[r].pc = "enter")
              => /\ projects'[runs[r].project_id].status = "analyzing"
                 /\ projects'[runs[r].project_id].by = r
      ]_vars

\* A request was accepted on a project in a terminal status: its queued
\* write replaced the completed or failed of the run before it.
C2_RequeuedAfterTerminal ==
    \E r \in RunIds :
        /\ runs[r].pc = "scheduled"
        /\ projects[1].status = "queued" /\ projects[1].by = r
        /\ projects[1].clobbered

\* C3 (Spec): runs of one project are not mutually excluded: a request is
\* accepted while another run of the project is scheduled or running, and
\* every write of a run that succeeds takes effect whoever wrote the record
\* before (the last writer wins), on the status and on 'latest' alike.
C3_NoMutualExclusion ==
    [][ /\ \A uid \in Users, pid \in ProjectIds :
              ( /\ analyze_project(uid, pid)
                /\ Live(pid) /\ projects[pid].owner_uid = uid
                /\ \E other \in RunIds : /\ runs[other].project_id = pid
                                         /\ runs[other].pc \notin {"unused", "done"} )
              => \E r \in RunIds : runs[r].pc = "unused" /\ runs'[r].pc = "scheduled"
        /\ \A r \in RunIds :
              ( /\ WriteAnalyzing(r) \/ WriteCompleted(r) \/ ExceptGit(r)
                       \/ ExceptExc(r) \/ Outer(r)
                /\ projects' # projects )
              => /\ projects'[runs[r].project_id].by = r
                 /\ projects'[runs[r].project_id].status
                        \in {"analyzing", "completed", "failed"}
        /\ \A r \in RunIds :
              (runs[r].pc = "set" /\ runs'[r].pc = "complete")
              => latest'[runs[r].project_id].by = r
      ]_vars

\* Both runs are over; one run's write replaced the terminal status of the
\* other, and the final status is of one run while 'latest' is of the other.
C3_StatusOfOneRunLatestOfTheOther ==
    /\ \A r \in RunIds : Done(r)
    /\ projects[1].clobbered
    /\ projects[1].status \in Terminal
    /\ latest[1].exists /\ latest[1].by # 0
    /\ projects[1].by # 0 /\ projects[1].by # latest[1].by

C6_GenerationFailureAloneCompletes ==
    \A r \in RunIds :
        LET p == runs[r].pst
            pid == runs[r].project_id
        IN  /\ runs[r].pc = "pipeline" =>
                \A o \in GenOutcomes :
                    /\ AtDoc(p) => DocConstruct(p, o).phase # "raised"
                    /\ AtSummary(p) => SummarizeClass(p, o).phase # "raised"
                    /\ AtReadme(p) => ReadmeCall(p, o).phase # "raised"
            /\ runs[r].pc = "set" =>
                /\ p.phase = "store"
                /\ p.total_files = Len(WalkFiles(runs[r].tree))
                /\ p.ki > Len(p.classes)
            /\ (Done(r) /\ Entered(r) /\ runs[r].events \subseteq {"gen_answered"}) =>
                /\ runs[r].visited = Len(WalkFiles(runs[r].tree))
                /\ runs[r].writes = <<"analyzing", "completed">>
                /\ projects[pid].status = "completed"
                /\ latest[pid].exists /\ latest[pid].by = r
                /\ Len(latest[pid].data.files) = Len(ParsedFiles(runs[r].tree))
                /\ \A f \in DOMAIN latest[pid].data.files :
                      \A i \in DOMAIN latest[pid].data.files[f].constructs :
                          latest[pid].data.files[f].constructs[i].documentation # None

\* A run over the tree of three constructs, in which every call failed, has
\* ended completed.
C6_CompletedWithEveryCallFailed ==
    \E r \in RunIds :
        /\ Done(r) /\ runs[r].events = {} /\ runs[r].tree = TreeMixed
        /\ projects[runs[r].project_id].status = "completed"
        /\ latest[runs[r].project_id].by = r

\* C7 (SpecRun): when every call so far raised or answered empty, then after
\* stage 1 every parsed file is in the results and every construct of it
\* carries the failure placeholder as its documentation.
C7_PlaceholderOnEveryConstruct ==
    \A r \in RunIds :
        LET p == runs[r].pst
        IN  (AfterStage1(p) /\ ~p.answered) =>
                /\ Len(p.analysis_results) = Len(ParsedFiles(runs[r].tree))
                /\ \A f \in DOMAIN p.analysis_results :
                      \A i \in DOMAIN p.analysis_results[f].constructs :
                          p.analysis_results[f].constructs[i].documentation = DocFailure

\* Stage 1 is over for the tree of three constructs, three calls were
\* issued and each of them failed.
C7_Stage1OverEveryCallFailed ==
    \E r \in RunIds :
        LET p == runs[r].pst
        IN  /\ p.phase = "stage2" /\ ~p.answered
            /\ runs[r].tree = TreeMixed
            /\ Len(CallsOf(p, 1)) = 3

C9_ModelsTriedInOrder ==
    \A r \in RunIds :
        LET p == runs[r].pst
            s == CallsOf(p, 3)
        IN  /\ Len(s) <= Len(models_to_try)
            /\ \A i \in DOMAIN s : s[i].model = models_to_try[i]
            /\ \A i \in DOMAIN s : i < Len(s) => BlankOrRaised(s[i].response)
            /\ s # <<>> => p.class_summaries # <<>>
            /\ p.phase = "stage3" =>
                  /\ p.mi = Len(s) + 1
                  /\ \A i \in DOMAIN s : BlankOrRaised(s[i].response)
            /\ (s # <<>> /\ ~BlankOrRaised(s[Len(s)].response)) =>
                  /\ p.phase = "store"
                  /\ p.readme_content = <<Strip(s[Len(s)].response)>>

\* The first model raised, the second answered whitespace, the third
\* answered a text, which is the README.
C9_ThirdModelAnswered ==
    \E r \in RunIds :
        LET p == runs[r].pst
            s == CallsOf(p, 3)
        IN  /\ p.phase = "store" /\ Len(s) = 3
            /\ s[1].response = GenRaise /\ s[2].response = " "
            /\ s[3].response = " text " /\ p.readme_content = <<"text">>

\* C10 (SpecRun): the readme_content of every stored analysis record, and of
\* every result about to be stored, is not empty; and when every model of
\* the list raised or answered blank, no further call was issued and the
\* content holds a section with the name and the summary of every entry of
\* class_summaries.
C10_ReadmeNeverEmpty ==
    /\ \A pid \in ProjectIds :
          latest[pid].exists => NonEmptyText(latest[pid].data.readme_content)
    /\ \A r \in RunIds :
          LET p == runs[r].pst
              s == CallsOf(p, 3)
              text == p.readme_content
          IN  p.phase = "store" =>
                /\ NonEmptyText(text)
                /\ p.class_summaries = <<>> => s = <<>>
                /\ (Len(s) = Len(models_to_try) /\ BlankOrRaised(s[Len(s)].response)) =>
                      /\ p.calls[Len(p.calls)] = s[Len(s)]
                      /\ \A k \in DOMAIN p.class_summaries :
                            \E j \in DOMAIN text :
                                /\ j + 2 \in DOMAIN text
                                /\ text[j] = p.class_summaries[k].name
                                /\ text[j + 2] = p.class_summaries[k].summary

\* A result built locally is stored: the three models failed for the tree
\* of two classes, both of which have a summary.
C10_FallbackStored ==
    \E r \in RunIds :
        /\ runs[r].pc = "complete" /\ runs[r].tree = TreeTwoClasses
        /\ latest[runs[r].project_id].by = r
        /\ Len(latest[runs[r].project_id].data.class_summaries) = 2
        /\ latest[runs[r].project_id].data.readme_content[1] = "# "
        /\ Len(latest[runs[r].project_id].data.readme_content) > 3

\* C11 (SpecRun): stage 3 calls the service exactly when class_summaries is
\* not empty at the end of stage 2: a run is in stage 3 only with a
\* non-empty class_summaries, and a finished stage 3 has issued a call if
\* class_summaries is not empty and none if it is empty, the README being
\* then the minimal document of line 392.
C11_ReadmeCallIffSummaries ==
    \A r \in RunIds :
        LET p == runs[r].pst
        IN  /\ p.phase = "stage3" => p.class_summaries # <<>>
            /\ ~AfterStage2(p) => CallsOf(p, 3) = <<>>
            /\ p.phase = "store" =>
                  /\ CallsOf(p, 3) # <<>> <=> p.class_summaries # <<>>
                  /\ p.class_summaries = <<>> =>
                        p.readme_content = MinimalReadme(p.project_name)

\* A tree without a class has gone through stage 3: one documentation call,
\* no README call, the minimal document.
C11_NoClassNoReadmeCall ==
    \E r \in RunIds :
        LET p == runs[r].pst
        IN  /\ p.phase = "store" /\ runs[r].tree = TreeFunction
            /\ Len(CallsOf(p, 1)) = 1 /\ CallsOf(p, 3) = <<>>
            /\ p.readme_content
                  = <<"# ", "repo", "\n\nNo classes were found to generate a detailed README.">>

\* Every construct of the results that has a snippet has its documentation.
Documented(results) ==
    \A f \in DOMAIN results : \A i \in DOMAIN results[f].constructs :
        Truthy(results[f].constructs[i].code_snippet)
        => results[f].constructs[i].documentation # None

\* C12 (SpecRun): the calls of a run are issued stage by stage.  A summary
\* call is issued only when the walk is over and every construct of every
\* parsed file has its documentation, which no later step changes; a README
\* call is issued only when every class has been gone through, after which
\* class_summaries does not change; and 'latest' is written only by a run
\* whose stage 3 is over.
C12_StagesInOrder ==
    /\ [](\A r \in RunIds :
            LET p == runs[r].pst
            IN  /\ \A i, j \in DOMAIN p.calls :
                      i < j => p.calls[i].stage <= p.calls[j].stage
                /\ CallsOf(p, 2) # <<>> =>
                      /\ AfterStage1(p) /\ p.fi > Len(p.files)
                      /\ Len(p.analysis_results) = Len(ParsedFiles(runs[r].tree))
                      /\ Documented(p.analysis_results)
                /\ AtSummary(p) =>
                      /\ p.fi > Len(p.files)
                      /\ Len(p.analysis_results) = Len(ParsedFiles(runs[r].tree))
                      /\ Documented(p.analysis_results)
                /\ (CallsOf(p, 3) # <<>> \/ AtReadme(p)) =>
                      AfterStage2(p) /\ p.ki > Len(p.classes)
                /\ runs[r].pc = "set" => p.phase = "store")
    /\ [][ /\ \A r \in RunIds :
                LET p == runs[r].pst
                    q == runs'[r].pst
                IN  /\ (AfterStage1(p) /\ AfterStage1(q))
                        => q.analysis_results = p.analysis_results
                    /\ (AfterStage2(p) /\ AfterStage2(q))
                        => q.class_summaries = p.class_summaries
           /\ latest' # latest =>
                \E r \in RunIds : runs[r].pc = "set" /\ runs[r].pst.phase = "store"
         ]_vars

\* The result of a file with a method and a class is about to be stored:
\* two documentation calls, then the summary call, then a README call.
C12_OneCallOfEveryStage ==
    \E r \in RunIds :
        LET p == runs[r].pst
        IN  /\ runs[r].pc = "set" /\ runs[r].tree = TreeClass
            /\ [i \in DOMAIN p.calls |-> p.calls[i].stage] = <<1, 1, 2, 3>>

\* C13 (SpecRun): when a run has written completed, it has written 'latest'
\* before: the record exists, is the one this run wrote, has the five
\* fields of lines 395-401 and holds the counts and the files of this run's
\* walk.  The project of the run, its runs not overlapping, has status
\* completed only with that record stored.
C13_CompletedAfterLatest ==
    \A r \in RunIds :
        LET pid == runs[r].project_id
            Stored ==
                /\ latest[pid].exists /\ latest[pid].by = r
                /\ DOMAIN latest[pid].data
                      = {"files", "class_summaries", "readme_content", "stats",
                         "analyzed_at"}
                /\ latest[pid].data.analyzed_at # None
                /\ latest[pid].data.stats.total_files = runs[r].visited
                /\ latest[pid].data.stats.total_files = Len(WalkFiles(runs[r].tree))
                /\ Len(latest[pid].data.files) = Len(ParsedFiles(runs[r].tree))
                /\ NonEmptyText(latest[pid].data.readme_content)
        IN  /\ (\E i \in DOMAIN runs[r].writes : runs[r].writes[i] = "completed")
                => Stored
            /\ (runs[r].traced /\ projects[pid].status = "completed") => Stored
            /\ runs[r].pc = "complete" => Stored

\* A run over the tree of four visited files has ended completed, its
\* record stored.
C13_CompletedWithRecord ==
    \E r \in RunIds :
        /\ Done(r) /\ runs[r].writes = <<"analyzing", "completed">>
        /\ runs[r].tree = TreeMixed
        /\ projects[runs[r].project_id].status = "completed"
        /\ latest[runs[r].project_id].by = r
        /\ latest[runs[r].project_id].data.stats.total_files = 4
        /\ latest[runs[r].project_id].data.stats.parsed_files = 2

\* C14 (Spec): a request for a project that exists and is owned by the
\* caller is answered 200, writes queued and schedules one run, in one slot
\* and no other; a request for a project that does not exist is answered
\* 404 and one by another caller 403, and neither changes the project or
\* schedules a run.  The answer is given by the handler alone: no step of a
\* run changes it.  (The store is taken to answer the handler's read and
\* write.)
C14_QueuedIffOwnedProject ==
    [][ /\ \A uid \in Users, pid \in ProjectIds :
              analyze_project(uid, pid) =>
                  /\ (Live(pid) /\ projects[pid].owner_uid = uid) =>
                        /\ resp'.code = 200
                        /\ projects'[pid].status = "queued"
                        /\ Cardinality({r \in RunIds : runs'[r] # runs[r]}) = 1
                        /\ \A r \in RunIds :
                              runs'[r] # runs[r] =>
                                  /\ runs[r].pc = "unused"
                                  /\ runs'[r].pc = "scheduled"
                                  /\ runs'[r].project_id = pid
                  /\ ~Live(pid) =>
                        /\ resp'.code = 404
                        /\ projects' = projects /\ runs' = runs
                  /\ (Live(pid) /\ projects[pid].owner_uid # uid) =>
                        /\ resp'.code = 403
                        /\ projects' = projects /\ runs' = runs
        /\ resp' # resp => \E uid \in Users, pid \in ProjectIds : analyze_project(uid, pid)
        /\ \A r \in RunIds :
              (runs[r].pc # "unused" /\ runs'[r] # runs[r]) => resp' = resp
      ]_vars

\* The caller was answered 200, and the run that was scheduled has failed.
C14_AcceptedThenRunFailed ==
    /\ resp.code = 200
    /\ \A r \in RunIds : runs[r].pc \in {"unused", "done"}
    /\ \E r \in RunIds : /\ Done(r)
                         /\ projects[1].status = "failed" /\ projects[1].by = r

\* What the extractor of a file's extension finds in the file.
Extracted(f) ==
    IF f.ext = ".py" THEN parse_python_file(f)
    ELSE IF f.ext \in {".js", ".jsx"} THEN parse_javascript_file(f)
    ELSE <<>>

\* A file parse_code_file returns None for: its extension is not mapped,
\* its extractor raises, or its extractor finds nothing.
Skipped(f) ==
    \/ f.ext \notin {".py", ".js", ".jsx"}
    \/ f.raises
    \/ Extracted(f) = <<>>

\* C15 (SpecRun): visiting a file with an unmapped extension, with no
\* construct, or whose extractor raises adds one to total_files and nothing
\* else: parsed_files, the result's file list and the language set stay as
\* they are, and the walk stands at the next file.  The step the run takes
\* on such a file is this one (unless an error from outside the file ends
\* the run), and no such file ever has an entry in the file list.
C15_SkippedFileCountedOnly ==
    /\ [](\A r \in RunIds :
            LET p == runs[r].pst
            IN  /\ (At_(r, "pipeline") /\ AtVisit(p) /\ Skipped(p.files[p.fi])) =>
                      LET q == VisitFile(p)
                      IN  /\ q.total_files = p.total_files + 1
                          /\ q.parsed_files = p.parsed_files
                          /\ q.analysis_results = p.analysis_results
                          /\ q.languages = p.languages
                          /\ q.calls = p.calls
                          /\ q.phase = "walk" /\ q.cur = <<>> /\ q.fi = p.fi + 1
                /\ \A k \in DOMAIN p.analysis_results :
                      \A i \in DOMAIN runs[r].tree :
                          Skipped(runs[r].tree[i]) =>
                              runs[r].tree[i].name # p.analysis_results[k].file_path)
    /\ [][\A r \in RunIds :
            LET p == runs[r].pst
            IN  (/\ At_(r, "pipeline") /\ AtVisit(p) /\ Skipped(p.files[p.fi])
                 /\ runs'[r] # runs[r] /\ runs'[r].pst.phase # "raised") =>
                    /\ runs'[r].pst = VisitFile(p)
                    /\ runs'[r].pc = "pipeline"
         ]_vars

\* The walk has passed a file whose extractor raised and a file with no
\* construct, and stands at the third file with nothing parsed.
C15_TwoFilesSkipped ==
    \E r \in RunIds :
        LET p == runs[r].pst
        IN  /\ At_(r, "pipeline") /\ runs[r].tree = TreeMixed
            /\ AtVisit(p) /\ p.fi = 3
            /\ p.total_files = 2 /\ p.parsed_files = 0
            /\ p.analysis_results = <<>> /\ p.languages = {}

\* The files the walk has taken from os.walk so far, the one in stage 1
\* included.
VisitedSoFar(p) == (p.fi - 1) + (IF p.cur # <<>> THEN 1 ELSE 0)

\* C16 (SpecRun): between two files of the walk, within the stage 1 of a
\* file, and from the end of the walk on: parsed_files is the length of the
\* result's file list, parsed_files <= total_files, total_files is the
\* number of files visited so far, and the language set is the set of the
\* language tags of the entries of the file list.
C16_WalkCounters ==
    \A r \in RunIds :
        LET p == runs[r].pst
        IN  p.phase \in {"walk", "stage2", "stage3", "store"} =>
                /\ p.parsed_files = Len(p.analysis_results)
                /\ p.parsed_files <= p.total_files
                /\ p.total_files = VisitedSoFar(p)
                /\ p.total_files <= Len(WalkFiles(runs[r].tree))
                /\ p.languages =
                      {p.analysis_results[k].language : k \in DOMAIN p.analysis_results}

\* The walk stands at its last file, after a file whose extractor raised, a
\* file with no construct and a parsed Python file of two constructs.
C16_OneParsedOfThree ==
    \E r \in RunIds :
        LET p == runs[r].pst
        IN  /\ At_(r, "pipeline") /\ runs[r].tree = TreeMixed
            /\ AtVisit(p) /\ p.fi = 4
            /\ p.total_files = 3 /\ p.parsed_files = 1
            /\ Len(p.analysis_results[1].constructs) = 2
            /\ p.languages = {"python"}

\* A file with a directory of one of the six names above it.
UnderDenylisted(f) ==
    \E i \in DOMAIN f.dirs :
        f.dirs[i] \in {".git", "node_modules", "build", "dist", "__pycache__", ".venv"}

\* C17 (SpecRun): a file under a directory named .git, node_modules, build,
\* dist, __pycache__ or .venv, however deep, is not among the files the
\* walk visits, is never the file in stage 1, has no entry in the result's
\* file list, and no construct of it is the target of a text-generation
\* call, whatever its extension is.
C17_DenylistedNeverParsed ==
    \A r \in RunIds :
        LET p == runs[r].pst
        IN  \A i \in DOMAIN runs[r].tree :
                LET f == runs[r].tree[i]
                IN  UnderDenylisted(f) =>
                        /\ \A j \in DOMAIN p.files : p.files[j] # f
                        /\ \A j \in DOMAIN p.cur : p.cur[j].file_path # f.name
                        /\ \A k \in DOMAIN p.analysis_results :
                              p.analysis_results[k].file_path # f.name
                        /\ \A c \in DOMAIN p.calls :
                              \A n \in DOMAIN Extracted(f) :
                                  p.calls[c].target # Extracted(f)[n].name
                        /\ p.total_files < Len(runs[r].tree)

\* The result about to be stored for a tree of six files, of which a .py
\* file lies under .git and a .js file under src/node_modules: four files
\* visited, two parsed.
C17_TwoOfSixPruned ==
    \E r \in RunIds :
        LET p == runs[r].pst
        IN  /\ runs[r].pc = "set" /\ runs[r].tree = TreeMixed
            /\ Len(runs[r].tree) = 6
            /\ Cardinality({i \in DOMAIN runs[r].tree : UnderDenylisted(runs[r].tree[i])}) = 2
            /\ p.total_files = 4
            /\ [k \in DOMAIN p.analysis_results |-> p.analysis_results[k].file_path]
                   = <<"a.py", "b.jsx">>

\* The constructs of the results whose parent_class is the class, in file
\* then construct order, documented or not.
ChildrenOf(results, class_name) ==
    SelectSeq(all_constructs(results),
              LAMBDA pl : /\ At(results, pl).type \in {"method", "function"}
                          /\ At(results, pl).parent_class = class_name)

\* The documented methods of a class from its two sources, the constructs
\* with its name as parent_class first and its own methods list second.
Discovered(results, place) ==
    LET class == At(results, place)
        children == SelectSeq(ChildrenOf(results, class.name),
                              LAMBDA pl : Truthy(At(results, pl).documentation))
        listed == SelectSeq(class.methods,
                            LAMBDA m : Truthy(MethodDoc(results, place[1], m)))
    IN  [i \in DOMAIN children |->
            [name |-> At(results, children[i]).name,
             documentation |-> At(results, children[i]).documentation,
             type |-> At(results, children[i]).type]]
        \o [i \in DOMAIN listed |->
            [name |-> listed[i].name,
             documentation |-> MethodDoc(results, place[1], listed[i]),
             type |-> listed[i].type]]

\* C18 (SpecRun): for every class of stage 2, the method list handed to the
\* summary request has no two entries of one name, has at most as many
\* entries as the class has methods in its two sources, and holds, for
\* every name among the documented methods of the two sources, the first
\* entry of that name, the parent_class source coming first.
C18_MethodsDeduplicatedFirstWins ==
    \A r \in RunIds :
        LET p == runs[r].pst
        IN  AfterStage1(p) =>
                \A k \in DOMAIN p.classes :
                    LET place == p.classes[k]
                        class == At(p.analysis_results, place)
                        passed == methods_for_class(p.analysis_results, place)
                        found == Discovered(p.analysis_results, place)
                        N == Len(ChildrenOf(p.analysis_results, class.name))
                             + Len(class.methods)
                    IN  /\ \A i, j \in DOMAIN passed :
                              passed[i].name = passed[j].name => i = j
                        /\ Len(passed) <= N
                        /\ \A i \in DOMAIN passed :
                              \E j \in DOMAIN found :
                                  /\ found[j] = passed[i]
                                  /\ \A h \in 1..(j - 1) : found[h].name # passed[i].name
                        /\ \A j \in DOMAIN found :
                              \E i \in DOMAIN passed : passed[i].name = found[j].name

\* The class D defines go twice; the two definitions were documented
\* differently, each is found through both sources, and the list passed
\* for D has the one entry of the first definition.
C18_FirstOfTwoDefinitionsKept ==
    \E r \in RunIds :
        LET p == runs[r].pst
            results == p.analysis_results
        IN  /\ runs[r].tree = TreeDup /\ AtSummary(p) /\ p.ki = 1
            /\ Truthy(results[1].constructs[2].documentation)
            /\ Truthy(results[1].constructs[3].documentation)
            /\ results[1].constructs[2].documentation
                   # results[1].constructs[3].documentation
            /\ Len(Discovered(results, p.classes[1])) = 4
            /\ methods_for_class(results, p.classes[1])
                   = << [name |-> "go", type |-> "method",
                         documentation |-> results[1].constructs[2].documentation] >>

\* Whether place a comes before place b in file then construct order.
Before(a, b) == a[1] < b[1] \/ (a[1] = b[1] /\ a[2] < b[2])

ClassPlaces(results) ==
    {pl \in UNION {{<<f, i>> : i \in DOMAIN results[f].constructs} : f \in DOMAIN results} :
        At(results, pl).type = "class"}

\* C19 (SpecRun): stage 2 asks for at most one summary per class name.  The
\* classes it goes through are, for every name of a class construct, the
\* first construct of that name in file then construct order, and it is
\* that construct whose name, snippet and language the request is made
\* for; were its snippet empty or blank, the class would cause no request
\* (and, were it empty, no entry).
C19_OneRequestPerClassName ==
    /\ [](\A r \in RunIds :
            LET p == runs[r].pst
                results == p.analysis_results
                asked == CallsOf(p, 2)
            IN  /\ \A i, j \in DOMAIN asked :
                      asked[i].target = asked[j].target => i = j
                /\ AfterStage1(p) =>
                      /\ \A k \in DOMAIN p.classes :
                            /\ p.classes[k] \in ClassPlaces(results)
                            /\ \A pl \in ClassPlaces(results) :
                                  At(results, pl).name = At(results, p.classes[k]).name
                                      => (pl = p.classes[k] \/ Before(p.classes[k], pl))
                      /\ \A pl \in ClassPlaces(results) :
                            \E k \in DOMAIN p.classes :
                                At(results, p.classes[k]).name = At(results, pl).name
                      /\ \A i \in DOMAIN asked :
                            \E k \in 1..(p.ki - 1) :
                                At(results, p.classes[k]).name = asked[i].target
                /\ AtSummary(p) =>
                      \A o \in GenOutcomes :
                          /\ LET q == SummarizeClass(p, o)
                                 c == At(results, p.classes[p.ki])
                             IN  /\ Len(q.calls) = Len(p.calls) + 1
                                 /\ q.calls[Len(q.calls)].stage = 2
                                 /\ q.calls[Len(q.calls)].target = c.name
                                 /\ KeepsSummary(_generate_class_summary(
                                        c.code_snippet, <<>>, c.language, o).ret)
                                    => \E n \in DOMAIN q.class_summaries :
                                          q.class_summaries[n] =
                                              [name |-> c.name,
                                               summary |-> _generate_class_summary(
                                                   c.code_snippet, <<>>, c.language, o).ret]
                          /\ \A e \in {None, "", " "} :
                                LET place == p.classes[p.ki]
                                    p0 == [p EXCEPT !.analysis_results[place[1]]
                                                      .constructs[place[2]].code_snippet = e]
                                    q == SummarizeClass(p0, o)
                                IN  /\ q.calls = p.calls
                                    /\ ~Truthy(e) => q.class_summaries = p.class_summaries
                                    /\ q.ki = p.ki + 1)
    /\ [][\A r \in RunIds :
            LET p == runs[r].pst
            IN  (/\ At_(r, "pipeline") /\ AtSummary(p)
                 /\ runs'[r] # runs[r] /\ runs'[r].pst.phase # "raised") =>
                    \E o \in GenOutcomes : runs'[r].pst = SummarizeClass(p, o)
         ]_vars

\* Two files each have a class Bar, the first in Python and the second in
\* JavaScript; stage 2 is over with one request, made for the first.
C19_OneRequestForTwoBars ==
    \E r \in RunIds :
        LET p == runs[r].pst
            results == p.analysis_results
        IN  /\ runs[r].tree = TreeMixed /\ AtBeginReadme(p)
            /\ {At(results, pl).name : pl \in ClassPlaces(results)} = {"Bar"}
            /\ ClassPlaces(results) = {<<1, 1>>, <<2, 1>>}
            /\ results[1].constructs[1].language = "python"
            /\ results[2].constructs[1].language = "javascript"
            /\ p.classes = << <<1, 1>> >>
            /\ Len(CallsOf(p, 2)) = 1 /\ CallsOf(p, 2)[1].target = "Bar"

\* What the service was asked in stage 1, call by call: the snippet and the
\* language of every construct, in file then construct order.
Asked(results) ==
    [i \in DOMAIN all_constructs(results) |->
        <<At(results, all_constructs(results)[i]).code_snippet,
          results[all_constructs(results)[i][1]].language>>]

\* The service answered stage 1 as a function of the snippet and the
\* language.
Deterministic(p) ==
    /\ Len(CallsOf(p, 1)) = Len(Asked(p.analysis_results))
    /\ \A i, j \in DOMAIN CallsOf(p, 1) :
          Asked(p.analysis_results)[i] = Asked(p.analysis_results)[j]
              => CallsOf(p, 1)[i].response = CallsOf(p, 1)[j].response

\* That function.
ServiceOf(p) ==
    [key \in {Asked(p.analysis_results)[i] : i \in DOMAIN Asked(p.analysis_results)} |->
        CallsOf(p, 1)[CHOOSE i \in DOMAIN CallsOf(p, 1) :
                          Asked(p.analysis_results)[i] = key].response]

Documentation(parsed_data) ==
    [i \in DOMAIN parsed_data.constructs |-> parsed_data.constructs[i].documentation]

\* C20 (SpecRun): at the end of a stage 1 that the service answered as a
\* function of snippet and language, the documentation the run gave the
\* constructs of a file is what one application of stage 1 with that
\* function gives the file as it was parsed, and applying stage 1 with the
\* same function once more, to the file of the results or to the outcome of
\* the first application, changes no documentation field (and nothing else).
C20_Stage1Idempotent ==
    \A r \in RunIds :
        LET p == runs[r].pst
        IN  (p.phase = "stage2" /\ p.ki = 1 /\ Deterministic(p)) =>
                \A k \in DOMAIN p.analysis_results :
                    LET parsed_data == parse_code_file(ParsedFiles(runs[r].tree)[k])[1]
                        once == Stage1(parsed_data, ServiceOf(p))
                        twice == Stage1(once, ServiceOf(p))
                    IN  /\ Documentation(once) = Documentation(p.analysis_results[k])
                        /\ twice = once
                        /\ Stage1(p.analysis_results[k], ServiceOf(p)) = p.analysis_results[k]

\* The three constructs of d.py are documented: the service raised for the
\* class and gave the same text for the two definitions of go, whose
\* snippets are the same.
C20_SameAnswerForSameSnippet ==
    \E r \in RunIds :
        LET p == runs[r].pst
        IN  /\ runs[r].tree = TreeDup /\ AtSummary(p) /\ Deterministic(p)
            /\ Asked(p.analysis_results)[2] = Asked(p.analysis_results)[3]
            /\ Documentation(p.analysis_results[1]) = <<DocFailure, "text", "text">>
            /\ Documentation(Stage1(p.analysis_results[1], ServiceOf(p)))
                   = <<DocFailure, "text", "text">>

\* The Python files of a run's working tree that ast.parse accepts.
PythonFiles(r) ==
    {runs[r].tree[i] : i \in {j \in DOMAIN runs[r].tree :
                                 runs[r].tree[j].ext = ".py" /\ ~runs[r].tree[j].raises}}

IsDeclaration(node) == node.node \in {"FunctionDef", "AsyncFunctionDef", "ClassDef"}

\* The names declared in a body, at any depth.
RECURSIVE DeclaredNames(_)
DeclaredNames(nodes) ==
    UNION {(IF IsDeclaration(nodes[i]) THEN {nodes[i].name} ELSE {})
           \cup DeclaredNames(nodes[i].body) : i \in DOMAIN nodes}

\* The file in stage 1 holds what the extractor returned for it.
CurIsExtracted(p) ==
    AtDoc(p) =>
        /\ p.cur[1].file_path = p.files[p.fi].name
        /\ [i \in DOMAIN p.cur[1].constructs |->
               [p.cur[1].constructs[i] EXCEPT !.documentation = None]]
           = Extracted(p.files[p.fi])

\* C21 as stated (SpecWalk): every function, async function and class
\* declared in a Python file, at any depth, has a construct of its name.
C21_EveryDeclarationEmitted ==
    \A r \in RunIds : \A f \in PythonFiles(r) :
        \A name \in DeclaredNames(f.ast) :
            \E c \in DOMAIN parse_python_file(f) : parse_python_file(f)[c].name = name

\* C21 (SpecWalk): parse_python_file emits one construct for every function,
\* async function and class declared at the top level of the file, with no
\* parent class, and one method construct, with the class as parent class,
\* for every function and async function declared directly in the body of
\* a top-level class; it emits no other construct, so a declaration nested
\* anywhere else has none.
C21_TopLevelAndClassChildrenEmitted ==
    \A r \in RunIds :
        /\ CurIsExtracted(runs[r].pst)
        /\ \A f \in PythonFiles(r) :
              LET out == parse_python_file(f)
                  children ==
                      {ij \in UNION {{<<i, j>> : j \in DOMAIN f.ast[i].body} :
                                        i \in DOMAIN f.ast} :
                          /\ f.ast[ij[1]].node = "ClassDef"
                          /\ IsFunctionDef(f.ast[ij[1]].body[ij[2]])}
              IN  /\ Len(out) = Len(SelectSeq(f.ast, IsDeclaration)) + Cardinality(children)
                  /\ \A i \in DOMAIN f.ast :
                        /\ IsFunctionDef(f.ast[i]) =>
                              \E c \in DOMAIN out :
                                  /\ out[c].name = f.ast[i].name
                                  /\ out[c].type = "function"
                                  /\ out[c].parent_class = None
                        /\ f.ast[i].node = "ClassDef" =>
                              \E c \in DOMAIN out :
                                  /\ out[c].name = f.ast[i].name
                                  /\ out[c].type = "class"
                                  /\ out[c].parent_class = None
                  /\ \A ij \in children :
                        \E c \in DOMAIN out :
                            /\ out[c].name = f.ast[ij[1]].body[ij[2]].name
                            /\ out[c].type = "method"
                            /\ out[c].parent_class = f.ast[ij[1]].name
                  /\ \A c \in DOMAIN out :
                        \/ /\ out[c].type = "method"
                           /\ \E ij \in children :
                                 /\ out[c].name = f.ast[ij[1]].body[ij[2]].name
                                 /\ out[c].parent_class = f.ast[ij[1]].name
                        \/ /\ out[c].type \in {"function", "class"}
                           /\ \E i \in DOMAIN f.ast :
                                 IsDeclaration(f.ast[i]) /\ f.ast[i].name = out[c].name

\* Stage 1 of a file that declares class A with method m, a function h
\* inside m and a class B with method n inside A: the constructs are A and
\* m.
C21_NestedDeclarationsLeftOut ==
    \E r \in RunIds :
        LET p == runs[r].pst
        IN  /\ runs[r].tree = <<PyDeep>> /\ AtDoc(p)
            /\ DeclaredNames(PyDeep.ast) = {"A", "m", "h", "B", "n"}
            /\ [i \in DOMAIN p.cur[1].constructs |-> p.cur[1].constructs[i].name]
                   = <<"A", "m">>

\* The files of a run's working tree that an extractor returns a list for.
ExtractedFiles(r) ==
    {runs[r].tree[i] : i \in {j \in DOMAIN runs[r].tree :
                                 /\ runs[r].tree[j].ext \in {".py", ".js", ".jsx"}
                                 /\ ~runs[r].tree[j].raises}}

Names(constructs) == [i \in DOMAIN constructs |-> constructs[i].name]

\* C22 (SpecWalk): in the list an extractor returns, the methods list of
\* every class construct names, in order, exactly the constructs of the
\* list whose parent_class is the name of the class, and every entry of a
\* methods list is one of the constructs of the list.
C22_MethodsListAgreesWithFlatList ==
    \A r \in RunIds : \A f \in ExtractedFiles(r) :
        LET out == Extracted(f)
        IN  \A c \in DOMAIN out :
                out[c].type = "class" =>
                    /\ Names(out[c].methods)
                           = Names(SelectSeq(out, LAMBDA x : x.parent_class = out[c].name))
                    /\ \A m \in DOMAIN out[c].methods :
                          /\ out[c].methods[m].ref \in DOMAIN out
                          /\ out[out[c].methods[m].ref].name = out[c].methods[m].name

JavaScriptFiles(r) == {f \in ExtractedFiles(r) : f.ext \in {".js", ".jsx"}}

\* The positions of a list at which a key occurs for the first time.
FirstOfKey(constructs) ==
    {i \in DOMAIN constructs :
        \A j \in 1..(i - 1) : Key(constructs[j]) # Key(constructs[i])}

\* A construct without its methods list.
Plain(construct) == [construct EXCEPT !.methods = <<>>]

\* C23 (SpecWalk): the list parse_javascript_file returns has no two
\* constructs of one (name, type, parent_class) key; it holds, of the
\* constructs found by the patterns, the first of every key and no other,
\* in the order in which the patterns found them.
C23_FirstOfEveryKeyInOrder ==
    \A r \in RunIds :
        /\ CurIsExtracted(runs[r].pst)
        /\ \A f \in JavaScriptFiles(r) :
              LET raw == RawConstructs(f)
                  out == parse_javascript_file(f)
              IN  /\ \A a, b \in DOMAIN out : Key(out[a]) = Key(out[b]) => a = b
                  /\ Len(out) = Cardinality(FirstOfKey(raw))
                  /\ \A k \in DOMAIN out :
                        \E i \in FirstOfKey(raw) :
                            /\ Cardinality({j \in FirstOfKey(raw) : j <= i}) = k
                            /\ Plain(out[k]) = Plain(raw[i])

\* Stage 1 of a file in which the patterns found run, run and K (a class
\* with two methods run): the constructs are run and K.
C23_SecondRunDropped ==
    \E r \in RunIds :
        LET p == runs[r].pst
        IN  /\ runs[r].tree = <<JsDup>> /\ AtDoc(p)
            /\ Names(RawConstructs(JsDup)) = <<"run", "run", "K">>
            /\ Key(RawConstructs(JsDup)[1]) = Key(RawConstructs(JsDup)[2])
            /\ Names(p.cur[1].constructs) = <<"run", "K">>

\* The matches of function_pattern and of arrow_function_pattern in a file.
FunctionMatches(f) == f.matches.functions \o f.matches.arrows

\* The span of a match lies within the span of a class match.
FullyInside(match, class_match) ==
    class_match.start <= match.start /\ match.end <= class_match.end

\* A match starts within the span of a class match.
StartsInside(match, class_match) ==
    class_match.start < match.start /\ match.start < class_match.end

HasConstruct(constructs, name, type, parent_class) ==
    \E c \in DOMAIN constructs :
        /\ constructs[c].name = name /\ constructs[c].type = type
        /\ constructs[c].parent_class = parent_class

\* C24 as stated (SpecWalk): a function or arrow-function match whose span
\* lies fully inside a class match is emitted as a method of that class and
\* not as a top-level function; one outside every class match is emitted
\* as a top-level function.
C24_InsideClassEmittedAsMethod ==
    \A r \in RunIds : \A f \in JavaScriptFiles(r) :
        LET out == parse_javascript_file(f)
            found == FunctionMatches(f)
            classes == f.matches.classes
        IN  \A i \in DOMAIN found :
                /\ \A k \in DOMAIN classes :
                      FullyInside(found[i], classes[k]) =>
                          /\ HasConstruct(out, found[i].name, "method", classes[k].name)
                          /\ ~HasConstruct(out, found[i].name, "function", None)
                /\ (\A k \in DOMAIN classes : ~StartsInside(found[i], classes[k])) =>
                      HasConstruct(out, found[i].name, "function", None)

\* C24 (SpecWalk): a function or arrow-function match that starts inside a
\* class match makes no top-level function: the function constructs are
\* made of the matches that start in no class match, one for each before
\* the duplicates are removed, and each such match has a function construct
\* of its name with no parent class in the list returned.  A match that
\* starts inside a class match has a method construct of that class exactly
\* when method_pattern matched its name in the body of the class and the
\* name is none of those line 92 skips.
C24_InsideClassNeverTopLevel ==
    \A r \in RunIds :
        /\ CurIsExtracted(runs[r].pst)
        /\ \A f \in JavaScriptFiles(r) :
              LET out == parse_javascript_file(f)
                  raw == RawConstructs(f)
                  found == FunctionMatches(f)
                  classes == f.matches.classes
                  outside == SelectSeq(found,
                                LAMBDA match : \A k \in DOMAIN classes :
                                                  ~StartsInside(match, classes[k]))
              IN  /\ Names(SelectSeq(raw, LAMBDA c : c.type = "function")) = Names(outside)
                  /\ \A c \in DOMAIN out :
                        out[c].type = "function" =>
                            /\ out[c].parent_class = None
                            /\ \E i \in DOMAIN outside : outside[i].name = out[c].name
                  /\ \A i \in DOMAIN outside :
                        HasConstruct(out, outside[i].name, "function", None)
                  /\ \A i \in DOMAIN found : \A k \in DOMAIN classes :
                        StartsInside(found[i], classes[k]) =>
                            (HasConstruct(out, found[i].name, "method", classes[k].name)
                             <=> /\ found[i].name \notin {"constructor", "if", "for",
                                                          "while", "switch"}
                                 /\ \E m \in DOMAIN classes[k].methods :
                                       classes[k].methods[m].name = found[i].name)

\* Stage 1 of a file with an arrow function f inside a method of class K,
\* and an arrow function g and a function h outside: the constructs are m,
\* K, h and g, and f is neither a method nor a function.
C24_ArrowInsideClassLost ==
    \E r \in RunIds :
        LET p == runs[r].pst
        IN  /\ runs[r].tree = <<JsArrow>> /\ AtDoc(p)
            /\ \E i \in DOMAIN JsArrow.matches.arrows :
                  /\ JsArrow.matches.arrows[i].name = "f"
                  /\ FullyInside(JsArrow.matches.arrows[i], JsArrow.matches.classes[1])
            /\ Names(p.cur[1].constructs) = <<"m", "K", "h", "g">>

\* What the properties say of a construct: its name, type, parent class and
\* the names of its methods list.
Shape(construct) ==
    [name |-> construct.name, type |-> construct.type,
     parent_class |-> construct.parent_class,
     methods |-> Names(construct.methods)]

\* C25 (SpecWalk): the walk over a working tree of a.py (a function foo and
\* a class Bar with a method baz) and b.js (function qux(){}) ends with
\* total_files 2, parsed_files 2, the languages python and javascript, and
\* the constructs foo (function, no parent class), Bar (class, methods
\* list [baz]), baz (method of Bar) and qux (function, no parent class).
C25_ScenarioTwoFiles ==
    \A r \in RunIds :
        LET p == runs[r].pst
        IN  (runs[r].tree = TreeScenario /\ AtCollect(p)) =>
                /\ p.total_files = 2 /\ p.parsed_files = 2
                /\ p.languages = {"python", "javascript"}
                /\ [k \in DOMAIN p.analysis_results |->
                       <<p.analysis_results[k].file_path, p.analysis_results[k].language>>]
                       = << <<"a.py", "python">>, <<"b.js", "javascript">> >>
                /\ [i \in DOMAIN p.analysis_results[1].constructs |->
                       Shape(p.analysis_results[1].constructs[i])]
                       = << [name |-> "foo", type |-> "function", parent_class |-> None,
                             methods |-> <<>>],
                            [name |-> "Bar", type |-> "class", parent_class |-> None,
                             methods |-> <<"baz">>],
                            [name |-> "baz", type |-> "method", parent_class |-> "Bar",
                             methods |-> <<>>] >>
                /\ [i \in DOMAIN p.analysis_results[2].constructs |->
                       Shape(p.analysis_results[2].constructs[i])]
                       = << [name |-> "qux", type |-> "function", parent_class |-> None,
                             methods |-> <<>>] >>

\* The walk over a.py and b.js is over: four documentation calls were made.
C25_ScenarioWalked ==
    \E r \in RunIds :
        LET p == runs[r].pst
        IN  /\ runs[r].tree = TreeScenario /\ AtCollect(p)
            /\ [i \in DOMAIN p.calls |-> p.calls[i].target] = <<"foo", "Bar", "baz", "qux">>

\* A step of a handler that starts no analysis.
OtherHandler ==
    \/ \E uid \in Users : \E displayName, bio \in {"Al", ""} :
          update_profile(uid, displayName, bio)
    \/ \E uid \in Users : get_projects(uid)
    \/ \E uid \in Users, pid \in ProjectIds, name \in NewNames :
          update_project(uid, pid, name)
    \/ \E uid \in Users, pid \in ProjectIds : get_project_analysis(uid, pid)
    \/ \E uid \in Users, o \in GenOutcomes : review_code_snippet(uid, o)

\* C26 (SpecApi): a project document appears with status created; from
\* then on, as long as the document is there, a step that changes its
\* status is a step of analyze_project that writes queued or a step of a
\* run for the project that writes analyzing, completed or failed; and a
\* step of update_project, update_profile, get_projects,
\* get_project_analysis or review_code_snippet changes the status of no
\* project, nor makes or removes one.
C26_StatusWrittenByAnalysisOnly ==
    [][ /\ \A pid \in ProjectIds :
              /\ (~Live(pid) /\ projects'[pid].state = "live") =>
                    projects'[pid].status = "created"
              /\ (/\ Live(pid) /\ projects'[pid].state = "live"
                  /\ projects'[pid].status # projects[pid].status) =>
                    \/ /\ \E uid \in Users : analyze_project(uid, pid)
                       /\ projects'[pid].status = "queued"
                    \/ /\ \E r \in RunIds :
                             /\ runs[r].project_id = pid
                             /\ runs[r].pc \notin {"unused", "done"}
                             /\ runs'[r] # runs[r]
                       /\ projects'[pid].status \in {"analyzing", "completed", "failed"}
        /\ OtherHandler =>
              \A pid \in ProjectIds :
                  /\ projects'[pid].status = projects[pid].status
                  /\ projects'[pid].state = projects[pid].state
      ]_vars

\* The owner renamed the project while a run was analysing it, and set a
\* profile: the status is still analyzing.
C26_RenamedWhileAnalyzing ==
    /\ resp = [op |-> "update_project", code |-> 200]
    /\ projects[1].name = "renamed" /\ projects[1].status = "analyzing"
    /\ profiles["alice"].exists
    /\ \E r \in RunIds : runs[r].project_id = 1 /\ runs[r].pc = "enter"

\* The run r wrote a terminal status to its project.
WroteTerminal(r) ==
    \E i \in DOMAIN runs[r].writes : runs[r].writes[i] \in Terminal

\* C27 (SpecRunFair): every call returning or raising, a run scheduled for
\* a project whose document is there in the end writes completed or failed
\* to it: the status of the project is not queued or analyzing forever.
C27_RunEndsInTerminalStatus ==
    \A r \in RunIds :
        (runs[r].pc = "scheduled" /\ Live(runs[r].project_id))
            ~> (/\ WroteTerminal(r)
                /\ projects[runs[r].project_id].status \in Terminal)

\* C28 (SpecRun): the one run of a request finds the status queued when it
\* starts, and the status values it writes are, in order, analyzing and
\* then at most one of completed and failed: analyzing is written before
\* the clone begins, and a run that ended with a terminal status wrote
\* analyzing first and exactly one terminal status.
C28_QueuedAnalyzingThenOneTerminal ==
    \A r \in RunIds :
        LET w == runs[r].writes IN
        runs[r].traced =>
            /\ (runs[r].pc = "scheduled" /\ Live(runs[r].project_id)) =>
                  projects[runs[r].project_id].status = "queued"
            /\ runs[r].pc = "clone" => w = <<"analyzing">>
            /\ Len(w) <= 2
            /\ Len(w) >= 1 => w[1] = "analyzing"
            /\ Len(w) = 2 => w[2] \in Terminal

\* C29 (SpecRun): the temporary directory of a run is gone once its walk
\* is over: it does not exist when a class-summary call of stage 2, a
\* README call of stage 3 or the write of analysis/latest is about to be
\* issued.
C29_DirectoryGoneAfterWalk ==
    \A r \in RunIds :
        (\/ /\ runs[r].pc = "pipeline"
            /\ AtSummary(runs[r].pst) \/ AtReadme(runs[r].pst)
         \/ runs[r].pc = "set")
            => runs[r].tmp # "exists"

\* Stage 1 of a run whose calls so far all raised or answered blank: every
\* construct that was asked about carries the failure placeholder.
BlankIsFailureInStage1(p) ==
    (\A i \in DOMAIN p.calls : BlankOrRaised(p.calls[i].response)) =>
        \A f \in DOMAIN p.analysis_results :
            \A i \in DOMAIN p.analysis_results[f].constructs :
                LET construct == p.analysis_results[f].constructs[i]
                IN  (Truthy(construct.code_snippet) /\ Strip(construct.code_snippet) # "")
                        => construct.documentation = DocFailure

\* Stage 2: a class whose call raised or answered blank has no entry.
BlankIsFailureInStage2(p) ==
    AfterStage2(p) =>
        \A i \in DOMAIN CallsOf(p, 2) :
            BlankOrRaised(CallsOf(p, 2)[i].response)
                => CallsOf(p, 2)[i].target \notin DictKeys(p.class_summaries)

\* Stage 3: a call that raised or answered blank is followed by the call
\* to the next model of the list, and after the last by the fallback text.
BlankIsFailureInStage3(p) ==
    LET cs == CallsOf(p, 3)
    IN  \A i \in DOMAIN cs :
            BlankOrRaised(cs[i].response) =>
                /\ cs[i].model = models_to_try[i]
                /\ (i = Len(cs) /\ i < Len(models_to_try)) => p.phase # "store"
                /\ (i = Len(cs) /\ p.phase = "store") => p.readme_content = FallbackReadme(p)

\* C30 (SpecRun): a response that is empty or only whitespace counts as a
\* failed call in every stage: the placeholder in stage 1, no entry in
\* stage 2, the next model in stage 3.
C30_BlankResponseIsFailure ==
    \A r \in RunIds :
        runs[r].pc = "pipeline" =>
            /\ BlankIsFailureInStage1(runs[r].pst)
            /\ BlankIsFailureInStage2(runs[r].pst)
            /\ BlankIsFailureInStage3(runs[r].pst)

\* The fields of a project document that the write of line 407 leaves as
\* they were.
KeptByCompleted(doc) ==
    <<doc.state, doc.name, doc.github_url, doc.owner_uid, doc.error>>

====
